---- MODULE Spec2Model ----
(***************************************************************************)
(* Model of the Discovery OS agent service:                                *)
(*   - embedding-service/graphs/session_analysis.py  (SessionAnalysisFlow) *)
(*   - embedding-service/graphs/evidence_link.py     (EvidenceLinkFlow)    *)
(*   - discovery-board-mcp/tools/decisions.py and                          *)
(*     embedding-service/agents/evidence_hunter.py   (decision recompute)  *)
(*                                                                         *)
(* A Python dict is a TLA+ function whose DOMAIN is the dict's key set.    *)
(* Python None is the string "None".  A float that is a quotient is kept   *)
(* as the pair <<numerator, denominator>>.                                 *)
(***************************************************************************)
EXTENDS Integers, Sequences, FiniteSets, TLC

VARIABLES
    sa_pc,          \* SessionAnalysisFlow: node about to run, "END" or "aborted"
    sa_state,       \* SessionAnalysisFlow: the state dict threaded through the graph
    gather_visits,  \* history: number of executions of the gather node (saturating)
    sa_stub_one,    \* history: every reasoning-service answer so far parsed to exactly 1 recommendation
    el_pc,          \* EvidenceLinkFlow: node about to run, "END" or "idle"
    el_state,       \* EvidenceLinkFlow: the state dict threaded through the graph
    el_seg_task,    \* EvidenceLinkFlow: the asyncio task running segment_node
    el_con_task,    \* EvidenceLinkFlow: the asyncio task running contradiction_node
    el_db,          \* EvidenceLinkFlow: the evidence_bank row of the evidence item
    el_trace,       \* history: the graph nodes that have run, in order
    el_raised,      \* history: the wrapped nodes whose call raised
    el_fanout,      \* history: the state as parallel_detect_node handed it to its two tasks
    dec_strengths,  \* evidence_bank.computed_strength of each evidence item
    dec_links,      \* evidence_decision_links of the decision: evidence id -> segment_match_factor (tenths)
    dec_row,        \* the decision's derived fields (evidence_strength in hundredths)
    dec_last,       \* history: the last operation on the decision: its recompute path and
                    \* average, the operation, the number of link rows before it
    conc_op,        \* concurrent record-tool calls on the decision: call -> its arguments
    conc_pc,        \* concurrent record-tool calls: call -> the step it is about to take
    conc_read,      \* concurrent record-tool calls: call -> the link rows its refresh read
    cd_in,          \* contradiction detector: the database as the run finds it
    cd_out,         \* contradiction detector: what the run did and returned
    alerts,         \* agent_alerts rows a pipeline run inserted, in order: their agent_type
    dm_in,          \* decay monitor: the monitored item of the workspace and its evidence
    dm_out,         \* decay monitor: what the run flagged and returned
    sn_notes,       \* sticky_notes rows: note id -> whether the row exists and its has_evidence
    sn_links,       \* sticky_note_evidence_links: <<note id, evidence id>> -> number of rows
    sn_last,        \* history: the last record-tool call on a sticky note
    eh_pc,          \* Evidence Hunter graph: node about to run, "END", "aborted" or "idle"
    eh_state,       \* Evidence Hunter graph: the HunterState threaded through the graph
    eh_model,       \* Evidence Hunter graph: whether main.model, the embedding model, is loaded
    eh_visits,      \* history: number of executions of generate_queries
    eh_search       \* history: how many results the last search_vector started with and
                    \* whether a query returned one of them again

sa_vars == <<sa_pc, sa_state, gather_visits, sa_stub_one>>

el_vars == <<el_pc, el_state, el_seg_task, el_con_task, el_db, el_trace, el_raised, el_fanout>>

dec_vars == <<dec_strengths, dec_links, dec_row, dec_last>>

conc_vars == <<conc_op, conc_pc, conc_read>>

cd_vars == <<cd_in, cd_out>>

dm_vars == <<dm_in, dm_out>>

sn_vars == <<sn_notes, sn_links, sn_last>>

eh_vars == <<eh_pc, eh_state, eh_model, eh_visits, eh_search>>

vars == <<sa_vars, el_vars, dec_vars, conc_vars, cd_vars, alerts, dm_vars, sn_vars, eh_vars>>

\* what a step of one component leaves alone
not_sa == <<el_vars, dec_vars, conc_vars, cd_vars, dm_vars, sn_vars, eh_vars>>

not_el == <<sa_vars, dec_vars, conc_vars, cd_vars, dm_vars, sn_vars, eh_vars>>

not_dec == <<sa_vars, el_vars, conc_vars, cd_vars, alerts, dm_vars, sn_vars, eh_vars>>

not_conc == <<sa_vars, el_vars, cd_vars, alerts, dm_vars, sn_vars, eh_vars>>

not_cd == <<sa_vars, el_vars, dec_vars, conc_vars, alerts, dm_vars, sn_vars, eh_vars>>

not_dm == <<sa_vars, el_vars, dec_vars, conc_vars, cd_vars, alerts, sn_vars, eh_vars>>

not_sn == <<sa_vars, el_vars, dec_vars, conc_vars, cd_vars, alerts, dm_vars, eh_vars>>

\* no SessionAnalysisFlow run
SAIdle ==
    /\ sa_pc = "idle"
    /\ sa_state = <<>>
    /\ gather_visits = 0
    /\ sa_stub_one = FALSE

\* no EvidenceLinkFlow run
ELIdle ==
    /\ el_pc = "idle"
    /\ el_state = <<>>
    /\ el_seg_task = [status |-> "none"]
    /\ el_con_task = [status |-> "none"]
    /\ el_db = [exists |-> FALSE]
    /\ el_trace = <<>>
    /\ el_raised = {}
    /\ el_fanout = <<>>

\* no concurrent record-tool calls
ConcIdle ==
    /\ conc_op = <<>>
    /\ conc_pc = <<>>
    /\ conc_read = <<>>

\* no decay monitor run
DMIdle ==
    /\ dm_in = <<>>
    /\ dm_out = [status |-> "none"]

\* the Evidence Hunter graph leaves the decision tables and agent_alerts
\* to its store_results node
not_eh == <<sa_vars, el_vars, conc_vars, cd_vars, dm_vars, sn_vars>>

\* no Evidence Hunter run
EHIdle ==
    /\ eh_pc = "idle"
    /\ eh_state = <<>>
    /\ eh_model = FALSE
    /\ eh_visits = 0
    /\ eh_search = <<>>

\* no sticky note under the record tools
SNIdle ==
    /\ sn_notes = <<>>
    /\ sn_links = <<>>
    /\ sn_last = [op |-> "none"]

\* no contradiction detector run
CDIdle ==
    /\ cd_in = <<>>
    /\ cd_out = [status |-> "none"]

\* no decision under recomputation
DecIdle ==
    /\ dec_strengths = <<>>
    /\ dec_links = <<>>
    /\ dec_row = [evidence_count |-> 0, evidence_strength |-> 0, gate_recommendation |-> "None"]
    /\ dec_last = [path |-> "none"]
    /\ ConcIdle

-----------------------------------------------------------------------------
(* Bounds *)

MaxProblems == 3    \* longest ranked_problems list the reasoning service returns
MaxEvidence == 2    \* most evidence rows linked to one sticky note
MaxVisits == 3      \* gather_visits saturates here

-----------------------------------------------------------------------------
(* Python dict helpers *)

\* {**state, **upd}  and  state.update(upd)
Upd(state, upd) ==
    [k \in (DOMAIN state) \cup (DOMAIN upd) |->
        IF k \in DOMAIN upd THEN upd[k] ELSE state[k]]

\* state.get(k, d)
Get(state, k, d) == IF k \in DOMAIN state THEN state[k] ELSE d

\* truthiness of an optional string
Truthy(s) == s \notin {"None", ""}

Min(a, b) == IF a < b THEN a ELSE b

\* the first n elements of a sequence
Take(seq, n) == SubSeq(seq, 1, Min(n, Len(seq)))

RECURSIVE SeqSum(_)
SeqSum(s) == IF s = <<>> THEN 0 ELSE Head(s) + SeqSum(Tail(s))

\* sequences over S of length 0..n
SeqsUpTo(S, n) == UNION {[1..m -> S] : m \in 0..n}

\* sequences over S of length 0..n without repeated elements
DistinctSeqsUpTo(S, n) ==
    {s \in SeqsUpTo(S, n) : \A i, j \in 1..Len(s) : i # j => s[i] # s[j]}

-----------------------------------------------------------------------------
(* SessionAnalysisFlow: inputs *)

\* rows of evidence_bank as selected by gather_data
EvidencePool ==
    { [id |-> "e1", source_system |-> "slack", segment |-> "SMB",
       has_direct_voice |-> TRUE, computed_strength |-> 80],
      [id |-> "e2", source_system |-> "jira", segment |-> "Enterprise",
       has_direct_voice |-> FALSE, computed_strength |-> 60],
      [id |-> "e3", source_system |-> "slack", segment |-> "None",
       has_direct_voice |-> FALSE, computed_strength |-> 20],
      [id |-> "e4", source_system |-> "slack", segment |-> "SMB",
       has_direct_voice |-> FALSE, computed_strength |-> 0] }

\* what the data store holds when gather_data reads it: the session row (or
\* none) and the sticky notes of its sections with their linked evidence
DBReads ==
    [session : {"None", "found"},
     notes : {<<>>}
             \cup {<<[id |-> "n1", content |-> "c", has_evidence |-> FALSE,
                      links |-> <<>>]>>}
             \cup {<<[id |-> "n1", content |-> "c", has_evidence |-> TRUE,
                      links |-> l]>> : l \in DistinctSeqsUpTo(EvidencePool, MaxEvidence)}]

\* one entry of the analysis' ranked_problems list
Problems == [problem : {"p"}, recommendation : {"validate", ""}]

\* the decoded reasoning-service answer: a parse error, or an object with
\* a ranked_problems list
Analyses ==
    {[raw_response |-> "text", parse_error |-> TRUE]}
    \cup {[ranked_problems |-> rp, summary |-> "s"] : rp \in SeqsUpTo(Problems, MaxProblems)}

\* what agents.session_analyzer.run_session_analyzer does: it raises, or
\* returns one of its three dict shapes
AnalyzerOutcomes ==
    {[raises |-> TRUE]}
    \cup {[raises |-> FALSE, result |-> [error |-> m]] :
            m \in {"Session not found", "No sections found"}}
    \cup {[raises |-> FALSE,
           result |-> [analysis |-> a, alert_id |-> "a1",
                       problem_count |-> 1, solution_count |-> 0]] : a \in Analyses}

\* number of ranked problems of an analysis that carry a recommendation
RecsIn(a) ==
    IF "ranked_problems" \in DOMAIN a
    THEN Len(SelectSeq(a["ranked_problems"], LAMBDA p : Truthy(p.recommendation)))
    ELSE 0

\* the analysis the reasoning service produced in an analyzer outcome
\* (a failed call produced none)
AnalysisOf(o) ==
    IF ~o.raises /\ "analysis" \in DOMAIN o.result
    THEN o.result["analysis"]
    ELSE [parse_error |-> TRUE]

-----------------------------------------------------------------------------
(* SessionAnalysisFlow: node functions *)

\* the notes gather_data keeps: those flagged has_evidence, each with the
\* evidence rows its links point to
NotesWithEvidence(notes) ==
    LET kept == SelectSeq(notes, LAMBDA n : n.has_evidence)
    IN [i \in 1..Len(kept) |->
          [id |-> kept[i].id, content |-> kept[i].content,
           has_evidence |-> kept[i].has_evidence,
           linked_evidence |-> kept[i].links]]

gather_data(state, db) ==
    IF db.session = "None"
    THEN Upd(state, [error |-> "Session not found"])
    ELSE Upd(state,
             [session_data |-> db.session,
              notes_with_evidence |-> NotesWithEvidence(db.notes),
              total_notes |-> Len(db.notes),
              per_note_gaps |-> <<>>,
              retry_count |-> Get(state, "retry_count", 0)])

\* the gaps analyze_gaps reports for one note's evidence list; avg_strength
\* is sum / len, kept as <<sum, len>> (<<0, 1>> for the empty list)
NoteGaps(evidence_list) ==
    LET n == Len(evidence_list)
        sources == {evidence_list[i].source_system : i \in 1..n}
        segments == {evidence_list[i].segment : i \in {j \in 1..n : Truthy(evidence_list[j].segment)}}
        has_voice == \E i \in 1..n : evidence_list[i].has_direct_voice
        total == SeqSum([i \in 1..n |-> evidence_list[i].computed_strength])
        avg == IF n > 0 THEN <<total, n>> ELSE <<0, 1>>
    IN [evidence_count |-> n,
        avg_strength |-> avg,
        gaps |-> (IF Cardinality(sources) <= 1 THEN <<"single_source">> ELSE <<>>)
                 \o (IF Cardinality(segments) <= 1 THEN <<"single_segment">> ELSE <<>>)
                 \o (IF ~has_voice THEN <<"no_voice">> ELSE <<>>)
                 \o (IF avg[1] < 40 * avg[2] THEN <<"weak_evidence">> ELSE <<>>)]

analyze_gaps(state) ==
    LET notes == Get(state, "notes_with_evidence", <<>>)
    IN Upd(state,
           [per_note_gaps |->
              [i \in 1..Len(notes) |->
                 LET g == NoteGaps(notes[i].linked_evidence)
                 IN [note_id |-> notes[i].id,
                     content |-> notes[i].content,
                     evidence_count |-> g.evidence_count,
                     avg_strength |-> g.avg_strength,
                     gaps |-> g.gaps]]])

\* the graph node: it reads ranked_problems at the top level of the dict
\* the agent returns
run_session_analyzer(state, o) ==
    IF o.raises
    THEN Upd(state,
             [analysis_result |-> [error |-> "exception"],
              ranked_problems |-> <<>>,
              recommendations_count |-> 0,
              error |-> "exception"])
    ELSE LET result == o.result
             ranked == Get(result, "ranked_problems", <<>>)
             recommendations == SelectSeq(ranked, LAMBDA p : Truthy(p.recommendation))
         IN Upd(state,
                [analysis_result |-> result,
                 ranked_problems |-> ranked,
                 recommendations_count |-> Len(recommendations)])

quality_gate(state) ==
    LET recs == Get(state, "recommendations_count", 0)
        retries == Get(state, "retry_count", 0)
    IN IF recs < 3 /\ retries < 1 THEN "retry" ELSE "done"

retry_with_context(state) ==
    Upd(state, [retry_count |-> Get(state, "retry_count", 0) + 1])

\* finalize_analysis with the retry clause dropped
finalize_analysis_no_retry(state) ==
    Upd(state,
        [completed |-> TRUE,
         passed_quality |-> (Get(state, "recommendations_count", 0) >= 3)])

finalize_analysis(state) ==
    Upd(state,
        [completed |-> TRUE,
         passed_quality |-> (Get(state, "recommendations_count", 0) >= 3
                             \/ Get(state, "retry_count", 0) >= 1)])

-----------------------------------------------------------------------------
(* SessionAnalysisFlow: the compiled graph *)

SANodes == {"gather", "gaps", "analyze", "retry", "finalize"}

\* add_edge(from, to)
SAEdge == [gather |-> "gaps", gaps |-> "analyze", retry |-> "gather", finalize |-> "END"]

\* add_conditional_edges("analyze", quality_gate, {...})
SARoute == [retry |-> "gather", done |-> "finalize"]

\* the function registered for a node, applied to the state
SANodeFn(node, state, db, o) ==
    CASE node = "gather" -> gather_data(state, db)
      [] node = "gaps" -> analyze_gaps(state)
      [] node = "analyze" -> run_session_analyzer(state, o)
      [] node = "retry" -> retry_with_context(state)
      [] node = "finalize" -> finalize_analysis(state)

\* the node that runs after `node` has returned `new`
SANextNode(node, new) ==
    IF node = "analyze" THEN SARoute[quality_gate(new)] ELSE SAEdge[node]

MaxAlerts == 5  \* most agent_alerts rows one run is followed through

\* the agent_alerts table after a run inserted the rows `new`
Inserted(rows, new) == Take(rows \o new, MaxAlerts)

\* agents.session_analyzer.run_session_analyzer inserts its alert once the
\* reasoning service has answered, whether or not the answer parsed
AnalyzerInserts(o) == ~o.raises /\ "alert_id" \in DOMAIN o.result

\* only gather reads the data store and only analyze calls the agent
SAReadsAt(node) ==
    IF node = "gather" THEN DBReads ELSE {[session |-> "None", notes |-> <<>>]}

SAOutcomesAt(node) ==
    IF node = "analyze" THEN AnalyzerOutcomes ELSE {[raises |-> TRUE]}

\* one step of the run: the current node returns the next state and the
\* graph's edges pick the successor
SAStep ==
    /\ sa_pc \in SANodes
    /\ \E db \in SAReadsAt(sa_pc), o \in SAOutcomesAt(sa_pc) :
         LET new == SANodeFn(sa_pc, sa_state, db, o)
         IN /\ sa_state' = new
            /\ sa_pc' = SANextNode(sa_pc, new)
            /\ sa_stub_one' = IF sa_pc = "analyze"
                              THEN sa_stub_one /\ ~o.raises
                                   /\ "analysis" \in DOMAIN o.result
                                   /\ RecsIn(AnalysisOf(o)) = 1
                              ELSE sa_stub_one
            /\ alerts' = IF sa_pc = "analyze" /\ AnalyzerInserts(o)
                         THEN Inserted(alerts, <<"session_analyzer">>)
                         ELSE alerts
    /\ gather_visits' = IF sa_pc = "gather"
                        THEN Min(gather_visits + 1, MaxVisits)
                        ELSE gather_visits
    /\ UNCHANGED not_sa

\* gather_data has no try/except: a data-store error leaves the graph run
SAGatherRaises ==
    /\ sa_pc = "gather"
    /\ sa_pc' = "aborted"
    /\ gather_visits' = Min(gather_visits + 1, MaxVisits)
    /\ UNCHANGED <<sa_state, sa_stub_one, alerts>>
    /\ UNCHANGED not_sa

\* the trigger's input record
SAInput == [session_id |-> "s1", workspace_id |-> "w1"]

InitSA ==
    /\ sa_pc = "gather"
    /\ sa_state = SAInput
    /\ gather_visits = 0
    /\ sa_stub_one = TRUE
    /\ ELIdle
    /\ DecIdle
    /\ CDIdle
    /\ alerts = <<>>
    /\ EHIdle
    /\ SNIdle
    /\ DMIdle

NextSA == SAStep \/ SAGatherRaises

SpecSA == InitSA /\ [][NextSA]_vars

\* every node call returns and the run is always scheduled
FairSpecSA == SpecSA /\ WF_vars(SAStep)

\* finalize_analysis on its own: the states that can stand at the quality
\* gate, one step before the terminal state
GateStates ==
    {Upd(SAInput, u) :
        u \in {[k \in ks |-> IF k = "error" THEN "exception" ELSE f[k]] :
                 ks \in SUBSET {"recommendations_count", "retry_count", "total_notes", "error"},
                 f \in [recommendations_count : 0..MaxProblems,
                        retry_count : 0..2,
                        total_notes : 0..1]}}

InitFinalize ==
    /\ sa_pc = "finalize"
    /\ sa_state \in GateStates
    /\ gather_visits = 1
    /\ sa_stub_one = FALSE
    /\ ELIdle
    /\ DecIdle
    /\ CDIdle
    /\ alerts = <<>>
    /\ EHIdle
    /\ SNIdle
    /\ DMIdle

SpecFinalize == InitFinalize /\ [][SAStep]_vars

-----------------------------------------------------------------------------
(* SessionAnalysisFlow: properties *)

\* C1: with a reasoning service that returns exactly 1 recommendation on
\* every call, the run visits gather exactly twice and then ends in
\* finalize with passed_quality = FALSE.
C1_StubOneGathersTwiceQualityUnmet ==
    sa_stub_one =>
        /\ gather_visits <= 2
        /\ (sa_pc = "END" =>
              /\ gather_visits = 2
              /\ sa_state["passed_quality"] = FALSE)

\* C2: whatever the reasoning service returns, gather is visited at most
\* twice in a run (the quality gate loops back at most once).
C2_GatherAtMostTwice == gather_visits <= 2

\* C3: every run in which each node call returns eventually reaches the end
\* of the graph.
C3_RunTerminates == <>(sa_pc \in {"END", "aborted"})

\* C4: every entry into gather from another node raises retry_count by
\* exactly one.
C4_LoopBackIncrementsRetry ==
    [][(sa_pc \in SANodes /\ sa_pc' = "gather") =>
          Get(sa_state', "retry_count", 0) = Get(sa_state, "retry_count", 0) + 1]_vars

\* C5: when the first analysis holds at least 3 ranked problems carrying a
\* recommendation, recommendations_count is >= 3, the run goes on to
\* finalize with gather visited once, and passed_quality is TRUE.
C5_ThreeRecsPassFirstTime ==
    (/\ gather_visits = 1
     /\ "analysis_result" \in DOMAIN sa_state
     /\ "analysis" \in DOMAIN sa_state["analysis_result"]
     /\ RecsIn(sa_state["analysis_result"]["analysis"]) >= 3)
    => /\ sa_state["recommendations_count"] >= 3
       /\ sa_pc \in {"finalize", "END"}
       /\ (sa_pc = "END" => sa_state["passed_quality"] = TRUE)

\* C6: in the terminal state passed_quality is TRUE exactly when
\* recommendations_count >= 3 or retry_count >= 1.
C6_PassedQualityRule ==
    sa_pc = "END" =>
        /\ sa_state["completed"] = TRUE
        /\ sa_state["passed_quality"] =
              (Get(sa_state, "recommendations_count", 0) >= 3
               \/ Get(sa_state, "retry_count", 0) >= 1)

\* C6 witness: a terminal state that passed only because the retry was used
C6_Witness ==
    /\ sa_pc = "END"
    /\ sa_state["passed_quality"] = TRUE
    /\ Get(sa_state, "recommendations_count", 0) < 3
    /\ Get(sa_state, "retry_count", 0) = 1

\* C9: an error raised inside a node never takes the run out of the graph.
C9_NodeErrorsContained == sa_pc # "aborted"

-----------------------------------------------------------------------------
(* EvidenceLinkFlow: inputs *)

MaxContradictions == 2  \* most contradictions one detector run reports

\* the trigger's input record
ELInputs == [evidence_id : {"ev1"}, workspace_id : {"w1"}, sticky_note_id : {"None", "n1"}]

\* the evidence_bank row of the evidence item, or no such row
EvidenceRows ==
    {[exists |-> FALSE]}
    \cup [exists : {TRUE}, segment : {"None", "SMB"},
          computed_strength : {20, 80}, has_direct_voice : {FALSE}]

SegmentLabels == {"SMB", "Enterprise"}

\* the dicts agents.segment_identifier.run_segment_identifier returns
SegmentResults(row) ==
    IF ~row.exists
    THEN {[segment |-> "None", error |-> "Evidence not found"]}
    ELSE {[segment |-> "None", error |-> "No text content to classify"]}
         \cup {[segment |-> IF d = <<>> THEN "None" ELSE d[1],
                all_segments |-> d,
                evidence_id |-> "ev1"] : d \in DistinctSeqsUpTo(SegmentLabels, 2)}

\* run_segment_identifier stores a detected primary segment on the row
SegmentWrite(row, result) ==
    IF row.exists /\ Truthy(result.segment)
    THEN [row EXCEPT !.segment = result.segment]
    ELSE row

\* the dicts agents.contradiction_detector.run_contradiction_detector returns
ContradictionResults(row) ==
    IF ~row.exists
    THEN {[contradictions_found |-> 0, error |-> "Evidence not found"]}
    ELSE {[contradictions_found |-> 0, error |-> m] :
            m \in {"Evidence has no embedding", "Invalid embedding format"}}
         \cup {[contradictions_found |-> 0, message |-> m] :
                 m \in {"No similar evidence found", "No contradictions detected"}}
         \cup {[contradictions_found |-> n,
                alerts |-> [i \in 1..Min(n, 3) |-> "alert"]] : n \in 1..MaxContradictions}

\* what voice_detector_node finds: whether the text has direct voice and
\* whether it stored the answer on the row
VoiceFindings(row) ==
    IF ~row.exists
    THEN {[has_voice |-> FALSE, writes |-> FALSE]}
    ELSE {[has_voice |-> FALSE, writes |-> FALSE],
          [has_voice |-> FALSE, writes |-> TRUE],
          [has_voice |-> TRUE, writes |-> TRUE]}

\* what gap_analyzer_node reads: the evidence linked to the sticky note, and
\* the number of extra gap lines the reasoning service adds
GapReads ==
    [items : DistinctSeqsUpTo(EvidencePool, MaxEvidence), extra : 0..2]

-----------------------------------------------------------------------------
(* EvidenceLinkFlow: node functions *)

\* the alert run_segment_identifier inserts: one when it detected a segment
SegmentAlerts(result) ==
    IF Truthy(result.segment) THEN <<"segment_identifier">> ELSE <<>>

\* the alerts run_contradiction_detector inserted: those its result lists
ContradictionAlerts(result) ==
    [i \in 1..Len(Get(result, "alerts", <<>>)) |-> "contradiction_detector"]

segment_node(state, result) ==
    Upd(state,
        [segment_result |-> result,
         segment |-> Get(result, "segment", "None"),
         all_segments |-> Get(result, "all_segments", <<>>)])

contradiction_node(state, result) ==
    Upd(state,
        [contradiction_result |-> result,
         contradictions_found |-> Get(result, "contradictions_found", 0),
         contradiction_alerts |-> Get(result, "alerts", <<>>)])

\* the merge restarting from the fan-out state when the contradiction task raised
parallel_detect_merge_restarts(state, seg, con) ==
    IF con.status = "returned"
    THEN Upd(IF seg.status = "returned"
             THEN Upd(state, seg.value)
             ELSE Upd(state, [segment |-> "None",
                              segment_result |-> [error |-> "exception"]]),
             con.value)
    ELSE Upd(state, [contradictions_found |-> 0,
                     contradiction_result |-> [error |-> "exception"]])

\* parallel_detect_node after asyncio.gather: merge the two outcomes into a
\* copy of the state, segment first
parallel_detect_merge(state, seg, con) ==
    LET merged0 == state
        merged1 == IF seg.status = "returned"
                   THEN Upd(merged0, seg.value)
                   ELSE Upd(merged0, [segment |-> "None",
                                      segment_result |-> [error |-> "exception"]])
    IN IF con.status = "returned"
       THEN Upd(merged1, con.value)
       ELSE Upd(merged1, [contradictions_found |-> 0,
                          contradiction_result |-> [error |-> "exception"]])

strength_node(state, row) ==
    IF ~row.exists
    THEN Upd(state, [strength_computed |-> FALSE])
    ELSE Upd(state, [strength_computed |-> TRUE,
                     computed_strength |-> row.computed_strength])

\* a node storing whatever segment the state carries, an empty one too
StrengthWrite_unconditional(state, row) ==
    IF row.exists
    THEN [row EXCEPT !.segment = Get(state, "segment", "None")]
    ELSE row

\* strength_node stores the state's segment when it differs from the row's
StrengthWrite(state, row) ==
    LET segment == Get(state, "segment", "None")
    IN IF row.exists /\ Truthy(segment) /\ segment # row.segment
       THEN [row EXCEPT !.segment = segment]
       ELSE row

\* the failure path returning only its own keys
strength_step_drops_state(state, row, raises) ==
    IF raises
    THEN [strength_computed |-> FALSE, error |-> "exception"]
    ELSE strength_node(state, row)

strength_step(state, row, raises) ==
    IF raises
    THEN Upd(state, [strength_computed |-> FALSE, error |-> "exception"])
    ELSE strength_node(state, row)

voice_detector_node(state, finding) ==
    Upd(state, [has_direct_voice |-> finding.has_voice])

VoiceWrite(row, finding) ==
    IF row.exists /\ finding.writes
    THEN [row EXCEPT !.has_direct_voice = finding.has_voice]
    ELSE row

\* the failure path handing the state back without the default
voice_step_no_default(state, finding, raises) ==
    IF raises
    THEN state
    ELSE voice_detector_node(state, finding)

voice_step(state, finding, raises) ==
    IF raises
    THEN Upd(state, [has_direct_voice |-> FALSE])
    ELSE voice_detector_node(state, finding)

\* the gap list of gap_analyzer_node for the evidence items of one note
CoverageGaps(items, extra) ==
    LET n == Len(items)
        sources == {items[i].source_system : i \in 1..n}
        segments == {items[i].segment : i \in {j \in 1..n : Truthy(items[j].segment)}}
        has_voice == \E i \in 1..n : items[i].has_direct_voice
        total == SeqSum([i \in 1..n |-> items[i].computed_strength])
        avg == IF n > 0 THEN <<total, n>> ELSE <<0, 1>>
        gaps == (IF Cardinality(sources) <= 1 THEN <<"Single source type">> ELSE <<>>)
                \o (IF Cardinality(segments) <= 1 THEN <<"Single segment">> ELSE <<>>)
                \o (IF ~has_voice THEN <<"No direct user voice">> ELSE <<>>)
                \o (IF avg[1] < 40 * avg[2] THEN <<"Weak average strength">> ELSE <<>>)
    IN IF n >= 3 /\ Len(gaps) > 0
       THEN gaps \o [i \in 1..extra |-> "additional"]
       ELSE gaps

gap_analyzer_node(state, rd) ==
    IF ~Truthy(Get(state, "sticky_note_id", "None"))
    THEN Upd(state, [gaps |-> <<>>])
    ELSE IF Len(rd.items) = 0
    THEN Upd(state, [gaps |-> <<"No evidence linked">>])
    ELSE IF Len(rd.items) <= 1
    THEN Upd(state, [gaps |-> <<"Single evidence source">>])
    ELSE Upd(state, [gaps |-> CoverageGaps(rd.items, rd.extra)])

\* gap_analyzer_node inserting one alert for each gap it lists
GapAlerts_per_gap(state, rd) ==
    IF Truthy(Get(state, "sticky_note_id", "None")) /\ Len(rd.items) >= 2
          /\ Len(CoverageGaps(rd.items, rd.extra)) >= 2
    THEN [i \in 1..Len(CoverageGaps(rd.items, rd.extra)) |-> "gap_analyzer"]
    ELSE <<>>

\* the alert gap_analyzer_node inserts: one when the coverage checks on two
\* or more items gave two or more gaps
GapAlerts(state, rd) ==
    IF Truthy(Get(state, "sticky_note_id", "None")) /\ Len(rd.items) >= 2
          /\ Len(CoverageGaps(rd.items, rd.extra)) >= 2
    THEN <<"gap_analyzer">>
    ELSE <<>>

gap_step(state, rd, raises) ==
    IF raises
    THEN Upd(state, [gaps |-> <<>>])
    ELSE gap_analyzer_node(state, rd)

finalize(state) == Upd(state, [completed |-> TRUE])

-----------------------------------------------------------------------------
(* EvidenceLinkFlow: the compiled graph *)

\* the graph with the gap_analysis node bypassed
ELEdge_skips_gap ==
    [parallel_detect |-> "strength", strength |-> "voice", voice |-> "finalize",
     gap_analysis |-> "finalize", finalize |-> "END"]

\* add_edge(from, to)
ELEdge ==
    [parallel_detect |-> "strength", strength |-> "voice", voice |-> "gap_analysis",
     gap_analysis |-> "finalize", finalize |-> "END"]

ELStages == <<"parallel_detect", "strength", "voice", "gap_analysis", "finalize">>

\* asyncio.create_task for both members, each handed the state
ELFanOut ==
    /\ el_pc = "parallel_detect"
    /\ el_seg_task.status = "none"
    /\ el_con_task.status = "none"
    /\ el_seg_task' = [status |-> "pending"]
    /\ el_con_task' = [status |-> "pending"]
    /\ el_fanout' = el_state
    /\ UNCHANGED <<el_pc, el_state, el_db, el_trace, el_raised>>
    /\ UNCHANGED alerts
    /\ UNCHANGED not_el

\* the position of a task among the finished ones: 1 when the other task is
\* still pending, 2 when it finished before
FinishOrder(other) == IF other.status = "pending" THEN 1 ELSE 2

\* segment_node writing its keys into the state object it was handed
ELSegmentTask_in_place ==
    /\ el_pc = "parallel_detect"
    /\ el_seg_task.status = "pending"
    /\ \/ /\ el_seg_task' = [status |-> "raised", finished |-> FinishOrder(el_con_task)]
          /\ el_raised' = el_raised \cup {"segment"}
          /\ UNCHANGED <<el_db, el_state, alerts>>
       \/ \E result \in SegmentResults(el_db) :
            /\ el_seg_task' = [status |-> "returned", value |-> segment_node(el_state, result),
                            finished |-> FinishOrder(el_con_task)]
            /\ el_state' = segment_node(el_state, result)
            /\ el_db' = SegmentWrite(el_db, result)
            /\ alerts' = Inserted(alerts, SegmentAlerts(result))
            /\ UNCHANGED el_raised
    /\ UNCHANGED <<el_pc, el_con_task, el_trace>>
    /\ UNCHANGED el_fanout
    /\ UNCHANGED not_el

\* the segment task finishes: segment_node returns or raises
ELSegmentTask ==
    /\ el_pc = "parallel_detect"
    /\ el_seg_task.status = "pending"
    /\ \/ /\ el_seg_task' = [status |-> "raised", finished |-> FinishOrder(el_con_task)]
          /\ el_raised' = el_raised \cup {"segment"}
          /\ UNCHANGED <<el_db, alerts>>
       \/ \E result \in SegmentResults(el_db) :
            /\ el_seg_task' = [status |-> "returned", value |-> segment_node(el_state, result),
                            finished |-> FinishOrder(el_con_task)]
            /\ el_db' = SegmentWrite(el_db, result)
            /\ alerts' = Inserted(alerts, SegmentAlerts(result))
            /\ UNCHANGED el_raised
    /\ UNCHANGED <<el_pc, el_state, el_con_task, el_trace>>
    /\ UNCHANGED el_fanout
    /\ UNCHANGED not_el

\* the contradiction task finishes: contradiction_node returns or raises
ELContradictionTask ==
    /\ el_pc = "parallel_detect"
    /\ el_con_task.status = "pending"
    /\ \/ /\ el_con_task' = [status |-> "raised", finished |-> FinishOrder(el_seg_task)]
          /\ el_raised' = el_raised \cup {"contradiction"}
          /\ UNCHANGED alerts
       \/ \E result \in ContradictionResults(el_db) :
            /\ el_con_task' = [status |-> "returned", value |-> contradiction_node(el_state, result),
                            finished |-> FinishOrder(el_seg_task)]
            /\ alerts' = Inserted(alerts, ContradictionAlerts(result))
            /\ UNCHANGED el_raised
    /\ UNCHANGED <<el_pc, el_state, el_seg_task, el_db, el_trace>>
    /\ UNCHANGED el_fanout
    /\ UNCHANGED not_el

\* the merge applying the two updates in the order the tasks finished
ELMerge_completion_order ==
    /\ el_pc = "parallel_detect"
    /\ el_seg_task.status \in {"returned", "raised"}
    /\ el_con_task.status \in {"returned", "raised"}
    /\ el_state' =
          IF el_seg_task.finished < el_con_task.finished
          THEN parallel_detect_merge(el_state, el_seg_task, el_con_task)
          ELSE LET con_update == IF el_con_task.status = "returned" THEN el_con_task.value
                                 ELSE [contradictions_found |-> 0,
                                       contradiction_result |-> [error |-> "exception"]]
                   seg_update == IF el_seg_task.status = "returned" THEN el_seg_task.value
                                 ELSE [segment |-> "None",
                                       segment_result |-> [error |-> "exception"]]
               IN Upd(Upd(el_state, con_update), seg_update)
    /\ el_pc' = ELEdge[el_pc]
    /\ el_trace' = Append(el_trace, el_pc)
    /\ UNCHANGED <<el_seg_task, el_con_task, el_db, el_raised>>
    /\ UNCHANGED el_fanout
    /\ UNCHANGED alerts
    /\ UNCHANGED not_el

\* asyncio.gather has both outcomes: parallel_detect_node merges and returns
ELMerge ==
    /\ el_pc = "parallel_detect"
    /\ el_seg_task.status \in {"returned", "raised"}
    /\ el_con_task.status \in {"returned", "raised"}
    /\ el_state' = parallel_detect_merge(el_state, el_seg_task, el_con_task)
    /\ el_pc' = ELEdge[el_pc]
    /\ el_trace' = Append(el_trace, el_pc)
    /\ UNCHANGED <<el_seg_task, el_con_task, el_db, el_raised>>
    /\ UNCHANGED el_fanout
    /\ UNCHANGED alerts
    /\ UNCHANGED not_el

ELStrength ==
    /\ el_pc = "strength"
    /\ \E raises \in BOOLEAN :
         /\ el_state' = strength_step(el_state, el_db, raises)
         /\ el_db' = IF raises THEN el_db ELSE StrengthWrite(el_state, el_db)
         /\ el_raised' = IF raises THEN el_raised \cup {"strength"} ELSE el_raised
    /\ el_pc' = ELEdge[el_pc]
    /\ el_trace' = Append(el_trace, el_pc)
    /\ UNCHANGED <<el_seg_task, el_con_task>>
    /\ UNCHANGED el_fanout
    /\ UNCHANGED alerts
    /\ UNCHANGED not_el

ELVoice ==
    /\ el_pc = "voice"
    /\ \E raises \in BOOLEAN, finding \in VoiceFindings(el_db) :
         /\ el_state' = voice_step(el_state, finding, raises)
         /\ el_db' = IF raises THEN el_db ELSE VoiceWrite(el_db, finding)
         /\ el_raised' = IF raises THEN el_raised \cup {"voice"} ELSE el_raised
    /\ el_pc' = ELEdge[el_pc]
    /\ el_trace' = Append(el_trace, el_pc)
    /\ UNCHANGED <<el_seg_task, el_con_task>>
    /\ UNCHANGED el_fanout
    /\ UNCHANGED alerts
    /\ UNCHANGED not_el

ELGap ==
    /\ el_pc = "gap_analysis"
    /\ \E raises \in BOOLEAN, rd \in GapReads :
         /\ el_state' = gap_step(el_state, rd, raises)
         /\ el_raised' = IF raises THEN el_raised \cup {"gap_analysis"} ELSE el_raised
         /\ alerts' = IF raises THEN alerts ELSE Inserted(alerts, GapAlerts(el_state, rd))
    /\ el_pc' = ELEdge[el_pc]
    /\ el_trace' = Append(el_trace, el_pc)
    /\ UNCHANGED <<el_seg_task, el_con_task, el_db>>
    /\ UNCHANGED el_fanout
    /\ UNCHANGED not_el

ELFinalize ==
    /\ el_pc = "finalize"
    /\ el_state' = finalize(el_state)
    /\ el_pc' = ELEdge[el_pc]
    /\ el_trace' = Append(el_trace, el_pc)
    /\ UNCHANGED <<el_seg_task, el_con_task, el_db, el_raised>>
    /\ UNCHANGED el_fanout
    /\ UNCHANGED alerts
    /\ UNCHANGED not_el

InitEL ==
    /\ el_pc = "parallel_detect"
    /\ el_state \in ELInputs
    /\ el_seg_task = [status |-> "none"]
    /\ el_con_task = [status |-> "none"]
    /\ el_db \in EvidenceRows
    /\ el_trace = <<>>
    /\ el_raised = {}
    /\ el_fanout = <<>>
    /\ SAIdle
    /\ DecIdle
    /\ CDIdle
    /\ alerts = <<>>
    /\ EHIdle
    /\ SNIdle
    /\ DMIdle

NextEL ==
    \/ ELFanOut
    \/ ELSegmentTask
    \/ ELContradictionTask
    \/ ELMerge
    \/ ELStrength
    \/ ELVoice
    \/ ELGap
    \/ ELFinalize

SpecEL == InitEL /\ [][NextEL]_vars

\* input states that already carry a segment key, as when the final state
\* of an earlier run on the evidence item is passed in again
ELRerunInputs ==
    {Upd(input, [segment |-> label]) : input \in ELInputs, label \in SegmentLabels}

InitELRerun ==
    /\ el_pc = "parallel_detect"
    /\ el_state \in ELRerunInputs
    /\ el_seg_task = [status |-> "none"]
    /\ el_con_task = [status |-> "none"]
    /\ el_db \in EvidenceRows
    /\ el_trace = <<>>
    /\ el_raised = {}
    /\ el_fanout = <<>>
    /\ SAIdle
    /\ DecIdle
    /\ CDIdle
    /\ alerts = <<>>
    /\ EHIdle
    /\ SNIdle
    /\ DMIdle

SpecELRerun == InitELRerun /\ [][NextEL]_vars

\* ---- both pipelines: a run of either graph, or finalize_analysis alone ----

InitPipelines == InitSA \/ InitFinalize \/ InitEL

NextPipelines == NextSA \/ NextEL

SpecPipelines == InitPipelines /\ [][NextPipelines]_vars

\* every awaited call returns and the event loop keeps running ready tasks
FairSpecEL == SpecEL /\ WF_vars(NextEL)

-----------------------------------------------------------------------------
(* EvidenceLinkFlow: properties *)

SegmentKeys == {"segment", "segment_result", "all_segments"}

ContradictionKeys == {"contradiction_result", "contradictions_found", "contradiction_alerts"}

\* the state holds every key of `keys` with the value the node returned
KeepsValues(state, value, keys) ==
    \A k \in keys : k \in DOMAIN state /\ state[k] = value[k]

\* C7: from the merge to the end of the run, when the contradiction node
\* raised and the segment node returned, the segment node's keys are in the
\* state with the segment node's values; and when the segment node raised and
\* the contradiction node returned, the contradiction node's keys are in the
\* state with the contradiction node's values.
C7_FailureIsolation ==
    el_pc \in {"strength", "voice", "gap_analysis", "finalize", "END"} =>
        /\ (el_seg_task.status = "returned" /\ el_con_task.status = "raised")
              => KeepsValues(el_state, el_seg_task.value, SegmentKeys)
        /\ (el_con_task.status = "returned" /\ el_seg_task.status = "raised")
              => KeepsValues(el_state, el_con_task.value, ContradictionKeys)

\* C7 witness: a finished run whose contradiction node raised while the
\* segment node classified the evidence
C7_Witness ==
    /\ el_pc = "END"
    /\ el_con_task.status = "raised"
    /\ el_seg_task.status = "returned"
    /\ el_state["segment"] = "Enterprise"

IsPrefix(s, t) ==
    /\ Len(s) <= Len(t)
    /\ \A i \in 1..Len(s) : s[i] = t[i]

\* C8: the nodes of a run execute in the order parallel_detect, strength,
\* voice, gap_analysis, finalize, each once, and every run reaches the end
\* with completed = TRUE, whichever nodes raise.
C8_OnePassInOrder ==
    /\ [](/\ IsPrefix(el_trace, ELStages)
          /\ (el_pc = "END" => /\ el_trace = ELStages
                               /\ el_state["completed"] = TRUE))
    /\ <>(el_pc = "END")

\* C8 witness: a finished run in which every wrapped node raised
C8_Witness ==
    /\ el_pc = "END"
    /\ el_raised = {"segment", "contradiction", "strength", "voice", "gap_analysis"}

-----------------------------------------------------------------------------
(* Decision recompute: the record tool and the Evidence Hunter *)

\* the evidence items of the workspace
Evidence == {"e1", "e2", "e3"}

\* computed_strength values an evidence item can have
StrengthValues == {20, 40, 70, 80}

\* segment_match_factor values a link row can carry, in tenths; no code of
\* the repository writes the column, the data store supplies it
FactorValues == {5, 10}

RECURSIVE SumOver(_, _)
SumOver(f, S) ==
    IF S = {} THEN 0
    ELSE LET x == CHOOSE y \in S : TRUE
         IN f[x] + SumOver(f, S \ {x})

\* a / b rounded to the nearest integer, for a >= 0 and b > 0
RoundDiv(a, b) == (2 * a + b) \div (2 * b)

\* the average taken over every evidence row instead of the decision's links
RefreshAvg_unfiltered(links, strengths) ==
    <<SumOver(strengths, DOMAIN strengths), Cardinality(DOMAIN strengths)>>

\* avg_strength of _refresh_decision_evidence_stats, as <<sum, len>>
RefreshAvg(links, strengths) ==
    LET count == Cardinality(DOMAIN links)
    IN IF count = 0 THEN <<0, 1>>
       ELSE <<SumOver(strengths, DOMAIN links), count>>

\* the update _refresh_decision_evidence_stats writes to the decision
refresh_decision_evidence_stats(links, strengths) ==
    LET count == Cardinality(DOMAIN links)
        avg == RefreshAvg(links, strengths)
        gate == IF avg[1] > 70 * avg[2] THEN "commit"
                ELSE IF avg[1] >= 40 * avg[2] THEN "validate"
                ELSE "park"
    IN [evidence_count |-> count,
        evidence_strength |-> RoundDiv(100 * avg[1], avg[2]),
        gate_recommendation |-> gate]

\* avg_strength of _recalculate_decision_strength, as <<total, count>> with
\* the factors' tenths moved into the denominator
RecalculateAvg(links, strengths) ==
    LET count == Cardinality(DOMAIN links)
        weighted == [e \in DOMAIN links |-> strengths[e] * links[e]]
    IN IF count = 0 THEN <<0, 1>>
       ELSE <<SumOver(weighted, DOMAIN links), 10 * count>>

\* the empty branch resetting the two numbers and leaving the gate unset
recalculate_decision_strength_keeps_gate(links, strengths) ==
    IF DOMAIN links = {}
    THEN [evidence_count |-> 0, evidence_strength |-> 0, gate_recommendation |-> "None"]
    ELSE LET count == Cardinality(DOMAIN links)
             avg == RecalculateAvg(links, strengths)
             gate == IF avg[1] >= 70 * avg[2] THEN "commit"
                     ELSE IF avg[1] >= 40 * avg[2] THEN "validate"
                     ELSE "park"
         IN [evidence_count |-> count,
             evidence_strength |-> 10 * RoundDiv(10 * avg[1], avg[2]),
             gate_recommendation |-> gate]

\* the update _recalculate_decision_strength writes to the decision
recalculate_decision_strength(links, strengths) ==
    IF DOMAIN links = {}
    THEN [evidence_count |-> 0, evidence_strength |-> 0, gate_recommendation |-> "park"]
    ELSE LET count == Cardinality(DOMAIN links)
             avg == RecalculateAvg(links, strengths)
             gate == IF avg[1] >= 70 * avg[2] THEN "commit"
                     ELSE IF avg[1] >= 40 * avg[2] THEN "validate"
                     ELSE "park"
         IN [evidence_count |-> count,
             evidence_strength |-> 10 * RoundDiv(10 * avg[1], avg[2]),
             gate_recommendation |-> gate]

\* the link table with the rows `new` added
WithLinks(links, new) ==
    [e \in (DOMAIN links) \cup (DOMAIN new) |->
        IF e \in DOMAIN links THEN links[e] ELSE new[e]]

\* the link table without the row of evidence e
WithoutLink(links, e) == [x \in (DOMAIN links) \ {e} |-> links[x]]

\* link_evidence_to_decision: insert the link row, then refresh the decision
\* (a second insert of the same pair violates the table's unique key and
\* raises before anything is written)
LinkEvidenceToDecision ==
    \E e \in Evidence \ DOMAIN dec_links, factor \in FactorValues :
        LET links == WithLinks(dec_links, [x \in {e} |-> factor])
        IN /\ dec_links' = links
           /\ dec_row' = refresh_decision_evidence_stats(links, dec_strengths)
           /\ dec_last' = [path |-> "refresh", avg |-> RefreshAvg(links, dec_strengths),
                           op |-> "link", before |-> Cardinality(DOMAIN dec_links)]
           /\ UNCHANGED dec_strengths
           /\ UNCHANGED not_dec

\* unlink_evidence_from_decision: delete the link row, then refresh
UnlinkEvidenceFromDecision ==
    \E e \in Evidence :
        LET links == WithoutLink(dec_links, e)
        IN /\ dec_links' = links
           /\ dec_row' = refresh_decision_evidence_stats(links, dec_strengths)
           /\ dec_last' = [path |-> "refresh", avg |-> RefreshAvg(links, dec_strengths),
                           op |-> "unlink", before |-> Cardinality(DOMAIN dec_links)]
           /\ UNCHANGED dec_strengths
           /\ UNCHANGED not_dec

\* store_results of the Evidence Hunter with a decision_id and a non-empty
\* filtered list: upsert a link per item, then recalculate
HunterStoreResults ==
    \E filtered \in (SUBSET Evidence) \ {{}} :
      \E new \in [filtered \ DOMAIN dec_links -> FactorValues] :
        LET links == WithLinks(dec_links, new)
        IN /\ dec_links' = links
           /\ dec_row' = recalculate_decision_strength(links, dec_strengths)
           /\ dec_last' = [path |-> "hunter", avg |-> RecalculateAvg(links, dec_strengths),
                           op |-> "hunter", before |-> Cardinality(DOMAIN dec_links)]
           /\ UNCHANGED dec_strengths
           /\ UNCHANGED not_dec

\* a decision as create_decision leaves it, in a workspace with evidence
InitDec ==
    /\ dec_strengths \in [Evidence -> StrengthValues]
    /\ dec_links = <<>>
    /\ dec_row = [evidence_count |-> 0, evidence_strength |-> 0, gate_recommendation |-> "None"]
    /\ dec_last = [path |-> "none"]
    /\ ConcIdle
    /\ SAIdle
    /\ ELIdle
    /\ CDIdle
    /\ alerts = <<>>
    /\ EHIdle
    /\ SNIdle
    /\ DMIdle

NextDec ==
    \/ LinkEvidenceToDecision
    \/ UnlinkEvidenceFromDecision
    \/ HunterStoreResults

SpecDec == InitDec /\ [][NextDec]_vars

\* ---- the two recompute functions on any link table ----

\* every link table over Evidence
LinkTables ==
    UNION {[S -> FactorValues] : S \in SUBSET Evidence}

\* decision rows a recompute can find: never computed, or left by earlier links
StaleRows ==
    {[evidence_count |-> 0, evidence_strength |-> 0, gate_recommendation |-> "None"],
     [evidence_count |-> 2, evidence_strength |-> 7500, gate_recommendation |-> "commit"]}

MaxRuns == 2  \* most recomputes of one decision followed in a behaviour

\* how many recomputes the decision has been through
Runs(last) == IF last.path = "none" THEN 0 ELSE last.runs

\* a refresh adjusting the stored count by the links it finds
RefreshDecisionEvidenceStats_incremental ==
    /\ Runs(dec_last) < MaxRuns
    /\ dec_row' = [refresh_decision_evidence_stats(dec_links, dec_strengths) EXCEPT
                      !.evidence_count = dec_row.evidence_count + Cardinality(DOMAIN dec_links)]
    /\ dec_last' = [path |-> "refresh", avg |-> RefreshAvg(dec_links, dec_strengths),
                    op |-> "recompute", before |-> Cardinality(DOMAIN dec_links),
                    runs |-> Runs(dec_last) + 1]
    /\ UNCHANGED <<dec_strengths, dec_links>>
    /\ UNCHANGED not_dec

\* _refresh_decision_evidence_stats called on the decision
RefreshDecisionEvidenceStats ==
    /\ Runs(dec_last) < MaxRuns
    /\ dec_row' = refresh_decision_evidence_stats(dec_links, dec_strengths)
    /\ dec_last' = [path |-> "refresh", avg |-> RefreshAvg(dec_links, dec_strengths),
                    op |-> "recompute", before |-> Cardinality(DOMAIN dec_links),
                    runs |-> Runs(dec_last) + 1]
    /\ UNCHANGED <<dec_strengths, dec_links>>
    /\ UNCHANGED not_dec

\* _recalculate_decision_strength called on the decision
RecalculateDecisionStrength ==
    /\ Runs(dec_last) < MaxRuns
    /\ dec_row' = recalculate_decision_strength(dec_links, dec_strengths)
    /\ dec_last' = [path |-> "hunter", avg |-> RecalculateAvg(dec_links, dec_strengths),
                    op |-> "recompute", before |-> Cardinality(DOMAIN dec_links),
                    runs |-> Runs(dec_last) + 1]
    /\ UNCHANGED <<dec_strengths, dec_links>>
    /\ UNCHANGED not_dec

InitRecompute ==
    /\ dec_strengths \in [Evidence -> StrengthValues]
    /\ dec_links \in LinkTables
    /\ dec_row \in StaleRows
    /\ dec_last = [path |-> "none"]
    /\ ConcIdle
    /\ SAIdle
    /\ ELIdle
    /\ CDIdle
    /\ alerts = <<>>
    /\ EHIdle
    /\ SNIdle
    /\ DMIdle

NextRecompute ==
    \/ RefreshDecisionEvidenceStats
    \/ RecalculateDecisionStrength

SpecRecompute == InitRecompute /\ [][NextRecompute]_vars

\* ---- record-tool calls on one decision running concurrently ----

MaxCalls == 2  \* concurrent link/unlink calls on the decision

Calls == 1..MaxCalls

\* the arguments of one call
CallArgs == [tool : {"link", "unlink"}, evidence_id : Evidence]

\* the evidence strengths the concurrent calls run on
ConcStrengths == {[e1 |-> 20, e2 |-> 80, e3 |-> 40], [e1 |-> 70, e2 |-> 70, e3 |-> 20]}

\* first statement of the tool: the insert of link_evidence_to_decision (a
\* pair already linked violates the unique key: the call raises and ends) or
\* the delete of unlink_evidence_from_decision
ConcWriteLink(c) ==
    /\ conc_pc[c] = "write_link"
    /\ LET e == conc_op[c].evidence_id
       IN IF conc_op[c].tool = "unlink"
          THEN /\ dec_links' = WithoutLink(dec_links, e)
               /\ conc_pc' = [conc_pc EXCEPT ![c] = "read_links"]
          ELSE IF e \in DOMAIN dec_links
          THEN /\ conc_pc' = [conc_pc EXCEPT ![c] = "raised"]
               /\ UNCHANGED dec_links
          ELSE /\ \E factor \in FactorValues :
                      dec_links' = WithLinks(dec_links, [x \in {e} |-> factor])
               /\ conc_pc' = [conc_pc EXCEPT ![c] = "read_links"]
    /\ UNCHANGED <<dec_strengths, dec_row, dec_last, conc_op, conc_read>>
    /\ UNCHANGED not_conc

\* _refresh_decision_evidence_stats, the select of the decision's links
ConcReadLinks(c) ==
    /\ conc_pc[c] = "read_links"
    /\ conc_read' = [conc_read EXCEPT ![c] = dec_links]
    /\ conc_pc' = [conc_pc EXCEPT ![c] = "write_decision"]
    /\ UNCHANGED <<dec_vars, conc_op>>
    /\ UNCHANGED not_conc

\* _refresh_decision_evidence_stats, the update of the decision from the
\* rows it read
ConcWriteDecision(c) ==
    /\ conc_pc[c] = "write_decision"
    /\ dec_row' = refresh_decision_evidence_stats(conc_read[c], dec_strengths)
    /\ conc_pc' = [conc_pc EXCEPT ![c] = "done"]
    /\ UNCHANGED <<dec_strengths, dec_links, dec_last, conc_op, conc_read>>
    /\ UNCHANGED not_conc

\* the decision is consistent with its links when the calls start
InitConc ==
    /\ dec_strengths \in ConcStrengths
    /\ dec_links \in LinkTables
    /\ dec_row = refresh_decision_evidence_stats(dec_links, dec_strengths)
    /\ dec_last = [path |-> "none"]
    /\ conc_op \in [Calls -> CallArgs]
    /\ conc_pc = [c \in Calls |-> "write_link"]
    /\ conc_read = [c \in Calls |-> <<>>]
    /\ SAIdle
    /\ ELIdle
    /\ CDIdle
    /\ alerts = <<>>
    /\ EHIdle
    /\ SNIdle
    /\ DMIdle

NextConc ==
    \E c \in Calls :
        \/ ConcWriteLink(c)
        \/ ConcReadLinks(c)
        \/ ConcWriteDecision(c)

SpecConc == InitConc /\ [][NextConc]_vars

-----------------------------------------------------------------------------
(* Decision recompute: properties *)

\* the gate label of an aggregate <<num, den>>: commit above 70, validate
\* from 40 to 70 inclusive, park below 40
GateLabel(avg) ==
    IF avg[1] > 70 * avg[2] THEN "commit"
    ELSE IF avg[1] >= 40 * avg[2] THEN "validate"
    ELSE "park"

\* C10: after every recompute, by either path, the decision's
\* gate_recommendation is commit when the aggregate is above 70, validate
\* when it is between 40 and 70 inclusive, and park when it is below 40.
C10_GateThresholds ==
    dec_last.path # "none" => dec_row.gate_recommendation = GateLabel(dec_last.avg)

\* the weighted arithmetic mean of the linked strengths,
\* sum(strength * factor) / sum(factor), as <<num, den>>; 0 without links
WeightedMean(links, strengths) ==
    IF DOMAIN links = {} THEN <<0, 1>>
    ELSE <<SumOver([e \in DOMAIN links |-> strengths[e] * links[e]], DOMAIN links),
           SumOver(links, DOMAIN links)>>

\* two quotients <<num, den>> with positive denominators are equal
SameRatio(a, b) == a[1] * b[2] = b[1] * a[2]

\* C11: the aggregate a recompute takes of the linked evidence is the
\* weighted arithmetic mean sum(strength * weight) / sum(weight), the weight
\* being the link's segment-match factor.
C11_WeightedMean ==
    dec_last.path # "none" =>
        SameRatio(dec_last.avg, WeightedMean(dec_links, dec_strengths))

\* C12: a recompute of a decision without linked evidence writes
\* evidence_strength 0 and gate_recommendation park, on the record tool's
\* path and on the Evidence Hunter's path.
C12_EmptyRecompute ==
    (dec_last.path # "none" /\ DOMAIN dec_links = {}) =>
        /\ dec_row.evidence_strength = 0
        /\ dec_row.gate_recommendation = "park"

\* the Evidence Hunter's recompute has run on a decision without links and
\* replaced a stale row
C12_Witness ==
    /\ dec_last.path = "hunter"
    /\ dec_last.op = "recompute"
    /\ DOMAIN dec_links = {}
    /\ dec_row.evidence_strength = 0
    /\ dec_row.gate_recommendation = "park"

\* C13: after unlink_evidence_from_decision has removed the last evidence
\* link of a decision, the decision has evidence_count 0 and
\* evidence_strength 0.
C13_UnlinkLast ==
    (dec_last.path # "none" /\ dec_last.op = "unlink"
        /\ dec_last.before = 1 /\ DOMAIN dec_links = {}) =>
        /\ dec_row.evidence_count = 0
        /\ dec_row.evidence_strength = 0

\* the only link of a decision whose row showed one link has been unlinked
C13_Witness ==
    /\ dec_last.path = "refresh"
    /\ dec_last.op = "unlink"
    /\ dec_last.before = 1
    /\ DOMAIN dec_links = {}
    /\ dec_row.evidence_count = 0

\* evidence_strength as stored, in hundredths: the quotient rounded to two
\* decimals (the record tool) or to one decimal (the Evidence Hunter)
StoredStrengths(avg) ==
    {RoundDiv(100 * avg[1], avg[2]), 10 * RoundDiv(10 * avg[1], avg[2])}

\* C14: after every completed link, unlink or Evidence Hunter auto-linking,
\* evidence_count is the number of link rows, evidence_strength is the
\* aggregate of the linked strengths and gate_recommendation is the
\* threshold label of that aggregate.
C14_DerivedFieldsInvariant ==
    dec_last.path # "none" =>
        LET aggregate == WeightedMean(dec_links, dec_strengths)
        IN /\ dec_row.evidence_count = Cardinality(DOMAIN dec_links)
           /\ dec_row.evidence_strength \in StoredStrengths(aggregate)
           /\ dec_row.gate_recommendation = GateLabel(aggregate)

\* C15: once every one of the concurrent link/unlink calls on a decision
\* has completed, the decision's evidence_count and evidence_strength are
\* the values derived from the final link table.
C15_ConcurrentDerived ==
    (conc_pc # <<>> /\ \A c \in Calls : conc_pc[c] \in {"done", "raised"}) =>
        LET derived == refresh_decision_evidence_stats(dec_links, dec_strengths)
        IN /\ dec_row.evidence_count = derived.evidence_count
           /\ dec_row.evidence_strength = derived.evidence_strength

-----------------------------------------------------------------------------
(* Contradiction detector: run_contradiction_detector *)

MaxSimilar == 2  \* most other evidence rows the vector search returns

MaxAnswer == 1   \* most elements of the list the reasoning service answers

Sentiments == {"None", "positive", "negative", "neutral"}

SourceSystems == {"slack", "jira"}

\* the id of the evidence row the run is about
NewEvidenceId == "ev1"

\* ids of the other evidence rows, in the order the search returns them
SimilarIds == <<"s1", "s2", "s3", "s4", "s5">>

\* the evidence_bank row of the new evidence: absent, or with its embedding
\* column (null, a string that is not JSON, or usable)
NewEvidenceRows ==
    {[exists |-> FALSE]} \cup
    [exists : {TRUE}, embedding : {"None", "invalid", "ok"},
     sentiment : Sentiments, source_system : SourceSystems]

\* the detail row of a similar item; the last one stands for a row the
\* detail query did not return (every .get on {} gives None)
DetailRows ==
    [sentiment : Sentiments, source_system : SourceSystems] \cup
    {[sentiment |-> "None", source_system |-> "None"]}

\* what search_evidence returns: the other rows, after the row itself when
\* the search matched it too
SearchResult(self, n) ==
    (IF self THEN <<NewEvidenceId>> ELSE <<>>) \o [i \in 1..n |-> SimilarIds[i]]

\* the database states a run can find
CDInputs ==
    {[new |-> new, found |-> SearchResult(self, Len(details)), details |-> details] :
        new \in NewEvidenceRows, self \in BOOLEAN, details \in SeqsUpTo(DetailRows, MaxSimilar)}

\* the detail row of a search result
DetailOf(in, id) ==
    IF id = NewEvidenceId
    THEN [sentiment |-> in.new.sentiment, source_system |-> in.new.source_system]
    ELSE LET i == CHOOSE i \in 1..Len(SimilarIds) : SimilarIds[i] = id
         IN in.details[i]

\* is_sentiment_conflict with any two different sentiments counting
is_sentiment_conflict_any_difference(new_sentiment, existing_sentiment) ==
    /\ new_sentiment # "None"
    /\ existing_sentiment # "None"
    /\ new_sentiment # existing_sentiment

\* is_sentiment_conflict of the direct rule
is_sentiment_conflict(new_sentiment, existing_sentiment) ==
    /\ new_sentiment # "None"
    /\ existing_sentiment # "None"
    /\ new_sentiment # existing_sentiment
    /\ {new_sentiment, existing_sentiment} = {"positive", "negative"}

\* is_independent of the direct rule
is_independent(detail, new_evidence) ==
    detail.source_system # new_evidence.source_system

\* the contradictions the direct rule appends, in the order of similar_items
DirectRule(in, similar_items) ==
    LET Conflicts(id) ==
            /\ is_sentiment_conflict(in.new.sentiment, DetailOf(in, id).sentiment)
            /\ is_independent(DetailOf(in, id), in.new)
        hits == SelectSeq(similar_items, Conflicts)
    IN [i \in 1..Len(hits) |->
            [existing_evidence |-> hits[i], conflict_type |-> "sentiment_mismatch"]]

\* the answers of the reasoning service: text that json.loads rejects or
\* that is not a list, or a list whose elements are objects with an id
\* prefix (of a listed item, of none, or missing: "") or are not objects
CDAnswers(similar_items) ==
    {[kind |-> "undecodable"]} \cup
    [kind : {"list"},
     elements : SeqsUpTo({similar_items[i] : i \in 1..Len(similar_items)}
                            \cup {"", "unknown", "not_an_object"}, MaxAnswer)]

\* the first similar item whose id starts with the prefix, "None" without one
FirstMatch(similar_items, prefix) ==
    LET hits == SelectSeq(similar_items, LAMBDA id : prefix = "" \/ prefix = id)
    IN IF hits = <<>> THEN "None" ELSE hits[1]

\* _claude_contradiction_check: the contradictions built from the answer, or
\* the AttributeError of r.get on an element that is not an object
claude_contradiction_check(similar_items, answer) ==
    IF answer.kind = "undecodable"
    THEN [raises |-> FALSE, contradictions |-> <<>>]
    ELSE IF \E i \in 1..Len(answer.elements) : answer.elements[i] = "not_an_object"
    THEN [raises |-> TRUE, contradictions |-> <<>>]
    ELSE LET matched == SelectSeq(answer.elements,
                            LAMBDA r : FirstMatch(similar_items, r) # "None")
         IN [raises |-> FALSE,
             contradictions |->
                [i \in 1..Len(matched) |->
                    [existing_evidence |-> FirstMatch(similar_items, matched[i]),
                     conflict_type |-> "semantic"]]]

AlertCap == 3  \* contradictions[:3]

\* a run that stops only after the search and the question to the reasoning
\* service
CDEarly_after_search(status, result) ==
    [status |-> status, result |-> result, searched |-> TRUE,
     adjudicated |-> TRUE, contradictions |-> <<>>, alerts |-> <<>>]

\* what a run leaves behind when it stops before the search
CDEarly(status, result) ==
    [status |-> status, result |-> result, searched |-> FALSE,
     adjudicated |-> FALSE, contradictions |-> <<>>, alerts |-> <<>>]

\* the reasoning service asked about every non-empty set of similar items
Escalates_always(similar_items, direct) == similar_items # <<>>

\* `if not contradictions:` after the direct rule's loop, which only runs on
\* a non-empty set of similar items
Escalates(similar_items, direct) == similar_items # <<>> /\ direct = <<>>

\* the search result taken as it comes
CDSimilarItems_unfiltered(in) == in.found

\* the similar items of a run: the search result without the row itself
CDSimilarItems(in) == SelectSeq(in.found, LAMBDA id : id # NewEvidenceId)

\* an alert for every contradiction
Capped_all(contradictions) == contradictions

\* the contradictions that get an alert
Capped(contradictions) == Take(contradictions, AlertCap)

\* run_contradiction_detector on the database state `in`; single_raises:
\* whether .single() raises on the missing row or hands back no data;
\* answer: the reasoning service's answer, read when it is asked
run_contradiction_detector(in, single_raises, answer) ==
    IF ~in.new.exists
    THEN IF single_raises THEN CDEarly("raised", <<>>)
         ELSE CDEarly("returned", [contradictions_found |-> 0, error |-> "Evidence not found"])
    ELSE IF in.new.embedding = "None"
    THEN CDEarly("returned", [contradictions_found |-> 0, error |-> "Evidence has no embedding"])
    ELSE IF in.new.embedding = "invalid"
    THEN CDEarly("returned", [contradictions_found |-> 0, error |-> "Invalid embedding format"])
    ELSE
    LET similar_items == CDSimilarItems(in)
        direct == DirectRule(in, similar_items)
        asked == Escalates(similar_items, direct)
        checked == IF asked THEN claude_contradiction_check(similar_items, answer)
                   ELSE [raises |-> FALSE, contradictions |-> direct]
        contradictions == checked.contradictions
        capped == Capped(contradictions)
        alert_rows == [i \in 1..Len(capped) |->
                      [related_evidence_ids |-> <<NewEvidenceId, capped[i].existing_evidence>>,
                       conflict_type |-> capped[i].conflict_type]]
    IN IF similar_items = <<>>
       THEN [status |-> "returned",
             result |-> [contradictions_found |-> 0, message |-> "No similar evidence found"],
             searched |-> TRUE, adjudicated |-> FALSE,
             contradictions |-> <<>>, alerts |-> <<>>]
       ELSE IF checked.raises
       THEN [status |-> "raised", result |-> <<>>, searched |-> TRUE,
             adjudicated |-> TRUE, contradictions |-> <<>>, alerts |-> <<>>]
       ELSE IF contradictions = <<>>
       THEN [status |-> "returned",
             result |-> [contradictions_found |-> 0, message |-> "No contradictions detected"],
             searched |-> TRUE, adjudicated |-> asked,
             contradictions |-> <<>>, alerts |-> <<>>]
       ELSE [status |-> "returned",
             result |-> [contradictions_found |-> Len(contradictions),
                         alerts |-> [i \in 1..Len(alert_rows) |-> i]],
             searched |-> TRUE, adjudicated |-> asked,
             contradictions |-> contradictions, alerts |-> alert_rows]

\* the answers that matter to a run: one placeholder unless the run asks
CDAnswersAt(in) ==
    IF in.new.exists /\ in.new.embedding = "ok" /\ CDSimilarItems(in) # <<>>
          /\ DirectRule(in, CDSimilarItems(in)) = <<>>
    THEN CDAnswers(CDSimilarItems(in))
    ELSE {[kind |-> "undecodable"]}

\* one run of the detector
CDRun ==
    /\ cd_out.status = "none"
    /\ cd_in # <<>>
    /\ \E single_raises \in (IF cd_in.new.exists THEN {FALSE} ELSE BOOLEAN),
          answer \in CDAnswersAt(cd_in) :
            cd_out' = run_contradiction_detector(cd_in, single_raises, answer)
    /\ UNCHANGED cd_in
    /\ UNCHANGED not_cd

InitCD ==
    /\ cd_in \in CDInputs
    /\ cd_out = [status |-> "none"]
    /\ SAIdle
    /\ ELIdle
    /\ DecIdle
    /\ alerts = <<>>
    /\ EHIdle
    /\ SNIdle
    /\ DMIdle

NextCD == CDRun

SpecCD == InitCD /\ [][NextCD]_vars

MaxMany == 4  \* most similar rows of a search with many matches

\* the detail rows of a search with many matches: of the opposite polarity
\* from another source, of the opposite polarity from the same source, or
\* without sentiment
ManyDetailRows ==
    {[sentiment |-> "negative", source_system |-> "jira"],
     [sentiment |-> "negative", source_system |-> "slack"],
     [sentiment |-> "None", source_system |-> "jira"]}

\* the database states with up to MaxMany similar rows around a positive
\* evidence row from slack
CDManyInputs ==
    {[new |-> [exists |-> TRUE, embedding |-> "ok", sentiment |-> "positive",
               source_system |-> "slack"],
      found |-> SearchResult(self, Len(details)), details |-> details] :
        self \in BOOLEAN, details \in SeqsUpTo(ManyDetailRows, MaxMany)}

InitCDMany ==
    /\ cd_in \in CDManyInputs
    /\ cd_out = [status |-> "none"]
    /\ SAIdle
    /\ ELIdle
    /\ DecIdle
    /\ alerts = <<>>
    /\ EHIdle
    /\ SNIdle
    /\ DMIdle

SpecCDMany == InitCDMany /\ [][NextCD]_vars

\* the direct rule has recorded the similar item id as a sentiment_mismatch
RecordedMismatch(id) ==
    \E i \in 1..Len(cd_out.contradictions) :
        /\ cd_out.contradictions[i].existing_evidence = id
        /\ cd_out.contradictions[i].conflict_type = "sentiment_mismatch"

\* C16: the direct sentiment rule records a similar item as a
\* sentiment_mismatch contradiction of the new item exactly when the two
\* sentiments are the pair positive/negative and the two source systems
\* differ; same-source, same-polarity, neutral and missing-sentiment pairs
\* are never recorded.
C16_DirectSentimentRule ==
    (cd_out.status = "returned" /\ cd_out.searched) =>
        \A i \in 1..Len(cd_in.details) :
            RecordedMismatch(SimilarIds[i]) <=>
                /\ {cd_in.new.sentiment, cd_in.details[i].sentiment} = {"positive", "negative"}
                /\ cd_in.details[i].source_system # cd_in.new.source_system

\* a run recorded one item of opposite polarity from another source and
\* passed over a neutral one
C16_Witness ==
    /\ cd_out.status = "returned"
    /\ Len(cd_in.details) = 2
    /\ RecordedMismatch(SimilarIds[1])
    /\ ~RecordedMismatch(SimilarIds[2])
    /\ cd_in.details[2].sentiment = "neutral"
    /\ cd_in.details[2].source_system # cd_in.new.source_system

-----------------------------------------------------------------------------
(* Properties of the state dicts of the two pipelines *)

\* C17: every node of both pipelines returns a state whose key set contains
\* the key set it received, on the failure path too: the state's key set
\* never shrinks, and neither does it in what a parallel member returns.
C17_KeysNeverShrink ==
    [][/\ DOMAIN sa_state \subseteq DOMAIN sa_state'
       /\ DOMAIN el_state \subseteq DOMAIN el_state'
       /\ (el_seg_task.status = "pending" /\ el_seg_task'.status = "returned") =>
             DOMAIN el_state \subseteq DOMAIN el_seg_task'.value
       /\ (el_con_task.status = "pending" /\ el_con_task'.status = "returned") =>
             DOMAIN el_state \subseteq DOMAIN el_con_task'.value]_vars

\* an Evidence-Link run ended after its strength node took the failure path
\* and still has the input keys and the keys of the parallel group
C17_Witness ==
    /\ el_pc = "END"
    /\ "strength" \in el_raised
    /\ {"evidence_id", "workspace_id", "sticky_note_id", "segment",
        "contradictions_found", "strength_computed"} \subseteq DOMAIN el_state

\* C18: the parallel group merges the two members' updates in declaration
\* order, the contradiction node's value winning on its keys, and a key only
\* the segment node updated keeps the segment node's value in the merged
\* state, also when the key was already in the state as of fan-out.
C18_SegmentKeysSurviveMerge ==
    (el_pc = "strength" /\ el_seg_task.status = "returned") =>
        /\ KeepsValues(el_state, el_seg_task.value, SegmentKeys)
        /\ el_con_task.status = "returned" =>
              KeepsValues(el_state, el_con_task.value, ContradictionKeys)

\* the merge of the two outcomes in declaration order, key by key: the
\* contradiction member's value, else the segment member's, else the value
\* as of fan-out
DeclarationOrderMerge(fanout, seg, con) ==
    LET seg_update == IF seg.status = "returned" THEN seg.value
                      ELSE [segment |-> "None", segment_result |-> [error |-> "exception"]]
        con_update == IF con.status = "returned" THEN con.value
                      ELSE [contradictions_found |-> 0,
                            contradiction_result |-> [error |-> "exception"]]
    IN [k \in DOMAIN fanout \cup DOMAIN seg_update \cup DOMAIN con_update |->
            IF k \in DOMAIN con_update THEN con_update[k]
            ELSE IF k \in DOMAIN seg_update THEN seg_update[k]
            ELSE fanout[k]]

\* C19: the merged state of the parallel group is fixed by the two tasks'
\* outcomes and the state as of fan-out: it is the same whichever task
\* finished first.
C19_MergeOrderIndependent ==
    el_pc = "strength" =>
        el_state = DeclarationOrderMerge(el_fanout, el_seg_task, el_con_task)

\* a merge after the contradiction task finished first, both having
\* returned, on a state that had a segment key at fan-out
C19_Witness ==
    /\ el_pc = "strength"
    /\ el_con_task.status = "returned"
    /\ el_seg_task.status = "returned"
    /\ el_con_task.finished = 1
    /\ "segment" \in DOMAIN el_fanout
    /\ el_seg_task.value["segment"] # el_fanout["segment"]

\* C20: while the two members run, neither changes the state object it was
\* handed: when both have finished the state is the state as of fan-out.
C20_FanOutStateUntouched ==
    (el_pc = "parallel_detect"
        /\ el_seg_task.status \in {"returned", "raised"}
        /\ el_con_task.status \in {"returned", "raised"}) =>
        el_state = el_fanout

\* both members have returned, the segment member with a detected segment,
\* and the merge has not run yet
C20_Witness ==
    /\ el_pc = "parallel_detect"
    /\ el_seg_task.status = "returned"
    /\ el_con_task.status = "returned"
    /\ el_seg_task.value["segment"] # "None"
    /\ "segment" \notin DOMAIN el_state
    /\ el_state = el_fanout

\* the graph node n has run
HasRun(n) == \E i \in 1..Len(el_trace) : el_trace[i] = n

\* the state has key k with value v
StateHas(k, v) == k \in DOMAIN el_state /\ el_state[k] = v

\* the keys a failing Evidence-Link node writes
DefaultKeys ==
    [parallel_detect |-> SegmentKeys \cup ContradictionKeys,
     strength |-> {"strength_computed", "error"},
     voice |-> {"has_direct_voice"},
     gap_analysis |-> {"gaps"},
     finalize |-> {"completed"}]

-----------------------------------------------------------------------------
(* Properties of the alerts a pipeline run inserts *)

\* number of inserted alerts of one agent
AlertCount(agent) ==
    Cardinality({i \in 1..Len(alerts) : alerts[i] = agent})

\* a pipeline run is over: it reached the end of its graph or was aborted
RunOver == el_pc = "END" \/ sa_pc \in {"END", "aborted"}

-----------------------------------------------------------------------------
(* Decay monitor: run_decay_monitor on a workspace with one monitored item *)

\* ages in days of the dated evidence rows: (now - dt).days
Ages == {21, 22, 90, 91, 100}

\* how many rows of one age an item has linked
AgeCounts == {0, 1, 50, 51}

\* evidence_strength of a decision (None read as 0), and the
\* computed_strength the rows of a sticky note share
DMStrengths == {0, 39, 40}

\* the item of the workspace: a decision with its status, or the sticky
\* note of a validation workflow with the workflow's status; linked: whether
\* it has link rows; dated: age -> number of linked rows of that age;
\* undated: number of linked rows without a timestamp that parses
DMInputs ==
    [type : {"decision"}, status : {"commit", "validate", "park"}, strength : DMStrengths,
     linked : BOOLEAN, dated : [Ages -> AgeCounts], undated : {0, 1}]
    \cup
    [type : {"sticky_note"}, status : {"validating", "validated"}, strength : DMStrengths,
     linked : BOOLEAN, dated : [Ages -> AgeCounts], undated : {0, 1}]

\* queries that select every row of the workspace
Monitored_all(item) == TRUE

\* the rows the two queries of run_decay_monitor select
Monitored(item) ==
    IF item.type = "decision"
    THEN item.status \in {"commit", "validate"}
    ELSE item.status = "validating"

\* round() of Python 3 on a / b: to the nearest integer, halves to even
RoundHalfEven(a, b) ==
    LET q == a \div b
        r == a % b
    IN IF 2 * r < b THEN q
       ELSE IF 2 * r > b THEN q + 1
       ELSE IF q % 2 = 0 THEN q ELSE q + 1

\* _calculate_staleness on the evidence rows of an item
calculate_staleness(item) ==
    LET present == {a \in Ages : item.dated[a] > 0}
        n == SumOver(item.dated, Ages)
        old_count == SumOver(item.dated, {a \in Ages : a > 90})
        rows == n + item.undated
    IN IF present = {}
       THEN [dates |-> 0, days_since_latest |-> 0, stale_percentage |-> 100,
             avg_strength |-> 0]
       ELSE [dates |-> n,
             days_since_latest |-> CHOOSE a \in present : \A b \in present : a <= b,
             stale_percentage |-> RoundHalfEven(100 * old_count, n),
             avg_strength |-> IF rows > 0 THEN item.strength ELSE 0]

\* _check_flag_conditions: the reasons to flag a decision
check_flag_conditions(staleness, strength, status) ==
    (IF staleness.days_since_latest # 0 /\ staleness.days_since_latest > 21
     THEN <<"Most recent evidence is old">> ELSE <<>>)
    \o (IF staleness.stale_percentage > 50
        THEN <<"Evidence is older than 90 days">> ELSE <<>>)
    \o (IF strength < 40 /\ status = "commit"
        THEN <<"Committed with weak evidence">> ELSE <<>>)

\* the reasons to flag a validating sticky note
NoteReasons(staleness) ==
    (IF staleness.days_since_latest > 30 THEN <<"Last evidence is old">> ELSE <<>>)
    \o (IF staleness.avg_strength > 0 /\ staleness.avg_strength < 40
        THEN <<"Weak evidence strength">> ELSE <<>>)

\* where the loop of run_decay_monitor puts the item: the list ("flagged",
\* "healthy", "skipped" when it continues without appending, or
\* "unmonitored" when no query selected the row) and the reasons joined into
\* the flagged entry
MonitorItem(item) ==
    LET staleness == calculate_staleness(item)
    IN IF ~Monitored(item)
       THEN [list |-> "unmonitored", reasons |-> <<>>]
       ELSE IF item.type = "decision"
       THEN IF ~item.linked
            THEN [list |-> "flagged", reasons |-> <<"No evidence linked">>]
            ELSE IF staleness.dates = 0
            THEN [list |-> "flagged", reasons |-> <<"No dated evidence">>]
            ELSE LET reasons == check_flag_conditions(staleness, item.strength, item.status)
                 IN IF reasons # <<>>
                    THEN [list |-> "flagged", reasons |-> reasons]
                    ELSE [list |-> "healthy", reasons |-> <<>>]
       ELSE IF ~item.linked
            THEN [list |-> "flagged", reasons |-> <<"Validating but no evidence linked">>]
            ELSE IF staleness.dates = 0
            THEN [list |-> "skipped", reasons |-> <<>>]
            ELSE LET reasons == NoteReasons(staleness)
                 IN IF reasons # <<>>
                    THEN [list |-> "flagged", reasons |-> reasons]
                    ELSE [list |-> "healthy", reasons |-> <<>>]

\* one run of the monitor: the lists, then the report and the alert (the
\* reasoning service, asked for the report unless both lists are empty, can
\* fail and leave the run without result)
DMRun ==
    /\ dm_out.status = "none"
    /\ dm_in # <<>>
    /\ \E report_raises \in (IF MonitorItem(dm_in).list \in {"skipped", "unmonitored"}
                              THEN {FALSE} ELSE BOOLEAN) :
          dm_out' = IF report_raises
                    THEN [status |-> "raised"]
                    ELSE LET placed == MonitorItem(dm_in)
                         IN [status |-> "returned",
                             list |-> placed.list,
                             reasons |-> placed.reasons,
                             flagged |-> IF placed.list = "flagged" THEN 1 ELSE 0,
                             healthy |-> IF placed.list = "healthy" THEN 1 ELSE 0,
                             alert_type |-> IF placed.list = "flagged"
                                            THEN "action_needed" ELSE "info"]
    /\ UNCHANGED dm_in
    /\ UNCHANGED not_dm

\* an item without link rows has no evidence rows
InitDM ==
    /\ dm_in \in {item \in DMInputs :
                    ~item.linked => (item.undated = 0 /\ \A a \in Ages : item.dated[a] = 0)}
    /\ dm_out = [status |-> "none"]
    /\ alerts = <<>>
    /\ EHIdle
    /\ SNIdle
    /\ SAIdle
    /\ ELIdle
    /\ DecIdle
    /\ CDIdle

NextDM == DMRun

SpecDM == InitDM /\ [][NextDM]_vars

\* the number of conditions of a set of truth values that hold
CountTrue(conds) == Cardinality({i \in DOMAIN conds : conds[i]})

\* C23: a decision with at least one dated evidence item is flagged exactly
\* when days_since_latest > 21, or more than half of its dated items are
\* older than 90 days, or it is committed with strength below 40; and its
\* reasons have exactly one entry for each condition that holds.
C23_DecisionFlagRule ==
    (dm_out.status = "returned" /\ dm_in.type = "decision" /\ dm_in.linked
        /\ dm_in.status \in {"commit", "validate"}
        /\ \E a \in Ages : dm_in.dated[a] > 0) =>
        LET n == SumOver(dm_in.dated, Ages)
            old == SumOver(dm_in.dated, {a \in Ages : a > 90})
            latest == CHOOSE a \in Ages :
                        dm_in.dated[a] > 0 /\ \A b \in Ages : dm_in.dated[b] > 0 => a <= b
            conds == <<latest > 21,
                       2 * old > n,
                       dm_in.status = "commit" /\ dm_in.strength < 40>>
        IN /\ dm_out.list = "flagged" <=> CountTrue(conds) > 0
           /\ Len(dm_out.reasons) = CountTrue(conds)

\* C24: a monitored item, decision or validating sticky note, whose linked
\* evidence has no timestamp that parses is in the flagged list with a
\* 'no dated evidence' reason.
C24_NoDatedEvidenceFlagged ==
    (dm_out.status = "returned" /\ dm_in.linked /\ dm_in.undated > 0
        /\ dm_in.status \in {"commit", "validate", "validating"}
        /\ \A a \in Ages : dm_in.dated[a] = 0) =>
        /\ dm_out.list = "flagged"
        /\ dm_out.reasons = <<"No dated evidence">>

-----------------------------------------------------------------------------
(* Properties of the coverage-gap analysis *)

\* the four coverage conditions on a group of evidence items
CoverageConditions(group) ==
    LET n == Len(group)
        items == {group[i] : i \in 1..n}
    IN <<Cardinality({e.source_system : e \in items}) <= 1,
         Cardinality({e.segment : e \in {x \in items : x.segment # "None"}}) <= 1,
         \A e \in items : ~e.has_direct_voice,
         SeqSum([i \in 1..n |-> group[i].computed_strength]) < 40 * n>>

\* C25: the gap list of a group of two or more evidence items has exactly
\* one reason for each coverage condition that holds (one source, one
\* segment, no direct voice, average strength below 40) and nothing else;
\* the gap list of a single-item group is the one 'needs more validation'
\* reason.
C25_GapReasons ==
    (sa_pc = "analyze" /\ "per_note_gaps" \in DOMAIN sa_state
        /\ "notes_with_evidence" \in DOMAIN sa_state) =>
        \A i \in 1..Len(sa_state["per_note_gaps"]) :
            LET group == sa_state["notes_with_evidence"][i].linked_evidence
                gaps == sa_state["per_note_gaps"][i].gaps
            IN /\ Len(group) >= 2 => Len(gaps) = CountTrue(CoverageConditions(group))
               /\ Len(group) = 1 => Len(gaps) = 1

\* C26: whatever text the reasoning service answers with, a detector run
\* that asked it returns normally: an answer that does not decode as a list
\* of objects counts as no result, it never raises
C26_UndecodableIsNoResult ==
    (cd_out.status # "none" /\ cd_out.adjudicated) => cd_out.status = "returned"

\* C27: a detector run on evidence without an embedding, or with an
\* embedding string that does not decode, returns contradictions_found = 0
\* with an error note, searches nothing, asks the reasoning service nothing
\* and inserts no alert
C27_NoEmbeddingShortCircuit ==
    (cd_out.status # "none" /\ cd_in.new.exists
        /\ cd_in.new.embedding \in {"None", "invalid"}) =>
        /\ cd_out.status = "returned"
        /\ cd_out.result["contradictions_found"] = 0
        /\ "error" \in DOMAIN cd_out.result
        /\ ~cd_out.searched
        /\ ~cd_out.adjudicated
        /\ cd_out.alerts = <<>>

\* an undecodable embedding on a row the search would have matched with a
\* conflicting independent item
C27_Witness ==
    /\ cd_out.status = "returned"
    /\ cd_in.new.exists
    /\ cd_in.new.embedding = "invalid"
    /\ DirectRule(cd_in, CDSimilarItems(cd_in)) # <<>>
    /\ "error" \in DOMAIN cd_out.result

\* C28: a recompute run a second time in a row on the same link table and
\* evidence strengths leaves evidence_count, evidence_strength and
\* gate_recommendation as the first run wrote them
C28_RecomputeIdempotent ==
    [][(/\ dec_last.path # "none"
        /\ dec_last'.path = dec_last.path
        /\ Runs(dec_last') = Runs(dec_last) + 1
        /\ dec_links' = dec_links
        /\ dec_strengths' = dec_strengths) => dec_row' = dec_row]_vars

\* the Evidence Hunter's recompute has run twice on a decision with links
\* whose row was stale before the first run
C28_Witness ==
    /\ dec_last.path = "hunter"
    /\ Runs(dec_last) = 2
    /\ DOMAIN dec_links # {}
    /\ dec_row.evidence_count = Cardinality(DOMAIN dec_links)
    /\ dec_row.evidence_count # 2

\* the similar items whose sentiment is the opposite pole of the new
\* evidence's and whose source system is another one
OpposedIndependent(in) ==
    {id \in {in.found[i] : i \in 1..Len(in.found)} \ {NewEvidenceId} :
        /\ {in.new.sentiment, DetailOf(in, id).sentiment} = {"positive", "negative"}
        /\ DetailOf(in, id).source_system # in.new.source_system}

\* C29: a detector run asks the reasoning service exactly when its search
\* returned similar items and the direct sentiment rule matched none of
\* them; when the direct rule matched, the service is not asked and the
\* reported pairs are the direct rule's
C29_AdjudicationOnlyWithoutDirect ==
    (cd_out.status # "none" /\ cd_in.new.exists) =>
        LET similar == {cd_in.found[i] : i \in 1..Len(cd_in.found)} \ {NewEvidenceId}
            direct == OpposedIndependent(cd_in)
            reported == {cd_out.contradictions[i] : i \in 1..Len(cd_out.contradictions)}
        IN /\ cd_out.adjudicated <=> (cd_out.searched /\ similar # {} /\ direct = {})
           /\ (cd_out.searched /\ direct # {}) =>
                /\ {c.existing_evidence : c \in reported} = direct
                /\ \A c \in reported : c.conflict_type = "sentiment_mismatch"

\* the direct rule matched one of two similar items and the other, without
\* a sentiment, was not put to the reasoning service
C29_Witness ==
    /\ cd_out.status = "returned"
    /\ cd_out.searched
    /\ ~cd_out.adjudicated
    /\ Len(CDSimilarItems(cd_in)) = 2
    /\ Len(cd_out.contradictions) = 1
    /\ \E i \in 1..Len(cd_in.details) : cd_in.details[i].sentiment = "None"

\* C30: once the analysis step has run, recommendations_count is the number
\* of entries of the parsed ranked_problems list that carry a
\* recommendation, and 0 when the step failed or its answer did not parse
C30_RecommendationsCounted ==
    ("analysis_result" \in DOMAIN sa_state /\ "recommendations_count" \in DOMAIN sa_state) =>
        LET result == sa_state["analysis_result"]
        IN sa_state["recommendations_count"] =
              (IF "analysis" \in DOMAIN result THEN RecsIn(result["analysis"]) ELSE 0)

-----------------------------------------------------------------------------
(* Properties of the decay monitor's selection and lists *)

\* C31: a run of the decay monitor puts only decisions in status commit or
\* validate and sticky notes of a validating workflow into its lists; a
\* parked decision is in neither the flagged nor the healthy list
C31_OnlyMonitoredListed ==
    dm_out.status = "returned" =>
        /\ (dm_out.flagged + dm_out.healthy > 0) =>
              \/ dm_in.type = "decision" /\ dm_in.status \in {"commit", "validate"}
              \/ dm_in.type = "sticky_note" /\ dm_in.status = "validating"
        /\ (dm_in.type = "decision" /\ dm_in.status = "park") =>
              (dm_out.flagged = 0 /\ dm_out.healthy = 0)

\* a run has returned on a parked decision without links, which would be
\* flagged if it were monitored
C31_Witness ==
    /\ dm_out.status = "returned"
    /\ dm_in.type = "decision"
    /\ dm_in.status = "park"
    /\ ~dm_in.linked
    /\ dm_out.flagged = 0

\* C35: in the report of a run every monitored decision and every sticky
\* note of a validating workflow is in exactly one of the flagged and
\* healthy lists, so flagged + healthy is the number of monitored items
C35_EveryMonitoredItemListed ==
    (/\ dm_out.status = "returned"
     /\ \/ dm_in.type = "decision" /\ dm_in.status \in {"commit", "validate"}
        \/ dm_in.type = "sticky_note" /\ dm_in.status = "validating") =>
        /\ dm_out.list \in {"flagged", "healthy"}
        /\ dm_out.flagged + dm_out.healthy = 1

-----------------------------------------------------------------------------
(* Properties relating the two recompute paths *)

\* C33: the record tool's recompute and the Evidence Hunter's recompute are
\* equivalent: on the same link table and evidence strengths the row either
\* of them wrote is the row the other one writes
C33_RecomputePathsEquivalent ==
    (dec_last.path # "none" /\ dec_last.op = "recompute") =>
        /\ dec_row = refresh_decision_evidence_stats(dec_links, dec_strengths)
        /\ dec_row = recalculate_decision_strength(dec_links, dec_strengths)

-----------------------------------------------------------------------------
(* Record tools on sticky notes: link_evidence_to_note,                    *)
(* unlink_evidence_from_note, delete_sticky_note, called one after another *)

MaxLinkRows == 2  \* most link rows of one note and evidence pair

Notes == {"n1", "n2"}

NoteEvidence == {"e1", "e2"}

\* the number of link rows of a note
LinkCount(links, n) == links[<<n, "e1">>] + links[<<n, "e2">>]

\* the link table without the rows of a note and evidence pair
WithoutRows(links, n, e) == [links EXCEPT ![<<n, e>>] = 0]

\* link_evidence_to_note: insert the link row, then set has_evidence (the
\* update matches no row when the note is gone); the insert raises on a
\* note that is gone (the foreign key delete_sticky_note speaks of) and, on
\* a pair already linked, either raises or adds a second row
LinkEvidenceToNote ==
    \E n \in Notes, e \in NoteEvidence, insert_raises \in BOOLEAN :
        /\ sn_links[<<n, e>>] < MaxLinkRows
        /\ ~sn_notes[n].exists => insert_raises
        /\ (sn_notes[n].exists /\ sn_links[<<n, e>>] = 0) => ~insert_raises
        /\ IF insert_raises
           THEN UNCHANGED <<sn_notes, sn_links>>
           ELSE /\ sn_links' = [sn_links EXCEPT ![<<n, e>>] = @ + 1]
                /\ sn_notes' = [sn_notes EXCEPT ![n].has_evidence = TRUE]
        /\ sn_last' = [op |-> "link", note |-> n, raised |-> insert_raises]
        /\ UNCHANGED not_sn

\* an unlink that clears has_evidence without counting the remaining rows
UnlinkEvidenceFromNote_always_clears ==
    \E n \in Notes, e \in NoteEvidence :
        /\ sn_links' = WithoutRows(sn_links, n, e)
        /\ sn_notes' = IF sn_notes[n].exists
                       THEN [sn_notes EXCEPT ![n].has_evidence = FALSE]
                       ELSE sn_notes
        /\ sn_last' = [op |-> "unlink", note |-> n, raised |-> FALSE]
        /\ UNCHANGED not_sn

\* unlink_evidence_from_note: delete the rows of the pair, count the rows
\* the note has left, clear has_evidence when there is none
UnlinkEvidenceFromNote ==
    \E n \in Notes, e \in NoteEvidence :
        LET links == WithoutRows(sn_links, n, e)
            remaining == LinkCount(links, n)
        IN /\ sn_links' = links
           /\ sn_notes' = IF remaining = 0 /\ sn_notes[n].exists
                          THEN [sn_notes EXCEPT ![n].has_evidence = FALSE]
                          ELSE sn_notes
           /\ sn_last' = [op |-> "unlink", note |-> n, raised |-> FALSE]
           /\ UNCHANGED not_sn

\* delete_sticky_note: delete the note's link rows, then the note
DeleteStickyNote ==
    \E n \in Notes :
        /\ sn_notes[n].exists
        /\ sn_links' = [pr \in DOMAIN sn_links |-> IF pr[1] = n THEN 0 ELSE sn_links[pr]]
        /\ sn_notes' = [sn_notes EXCEPT ![n] = [exists |-> FALSE, has_evidence |-> FALSE]]
        /\ sn_last' = [op |-> "delete", note |-> n, raised |-> FALSE]
        /\ UNCHANGED not_sn

\* the notes as create_sticky_note left them, without links
InitSN ==
    /\ sn_notes = [n \in Notes |-> [exists |-> TRUE, has_evidence |-> FALSE]]
    /\ sn_links = [pr \in Notes \X NoteEvidence |-> 0]
    /\ sn_last = [op |-> "none"]
    /\ SAIdle
    /\ ELIdle
    /\ DecIdle
    /\ CDIdle
    /\ DMIdle
    /\ alerts = <<>>
    /\ EHIdle

NextSN ==
    \/ LinkEvidenceToNote
    \/ UnlinkEvidenceFromNote
    \/ DeleteStickyNote

SpecSN == InitSN /\ [][NextSN]_vars

\* C34: after every completed link_evidence_to_note,
\* unlink_evidence_from_note and delete_sticky_note, each sticky note that
\* exists has has_evidence = true exactly when it has a link row
C34_HasEvidenceIffLinked ==
    \A n \in DOMAIN sn_notes :
        sn_notes[n].exists =>
            (sn_notes[n].has_evidence <=>
                \E e \in NoteEvidence : sn_links[<<n, e>>] > 0)

\* an unlink has removed one of the two links of a note, which keeps its
\* flag, while the other note was deleted with its links
C34_Witness ==
    /\ sn_last.op = "unlink"
    /\ sn_notes[sn_last.note].exists
    /\ LinkCount(sn_links, sn_last.note) = 1
    /\ sn_notes[sn_last.note].has_evidence
    /\ \E n \in Notes : ~sn_notes[n].exists

-----------------------------------------------------------------------------
(* Properties of the contradiction detector's alerts *)

\* C36: a detector run inserts at most 3 alerts and never more alerts than
\* contradictions, and the contradictions_found it returns counts every
\* contradiction it detected, alerted or not
C36_AlertsCapped ==
    cd_out.status = "returned" =>
        /\ Len(cd_out.alerts) <= 3
        /\ Len(cd_out.alerts) <= Len(cd_out.contradictions)
        /\ cd_out.result["contradictions_found"] = Len(cd_out.contradictions)
        /\ (cd_out.searched /\ ~cd_out.adjudicated) =>
              cd_out.result["contradictions_found"] = Cardinality(OpposedIndependent(cd_in))

\* the direct rule matched four similar rows and three of them got an alert
C36_Witness ==
    /\ cd_out.status = "returned"
    /\ cd_out.result["contradictions_found"] = 4
    /\ Len(cd_out.alerts) = 3

\* C37: no alert of a detector run relates an evidence item to itself: the
\* two related evidence ids differ, for pairs of the direct rule and for
\* pairs of the adjudication step
C37_NoSelfContradiction ==
    cd_out.status = "returned" =>
        \A i \in 1..Len(cd_out.alerts) :
            /\ cd_out.alerts[i].related_evidence_ids[1] = NewEvidenceId
            /\ cd_out.alerts[i].related_evidence_ids[2] # NewEvidenceId

\* the search returned the row itself first, and the adjudication step named
\* a contradiction without an id that points at one row
C37_Witness ==
    /\ cd_out.status = "returned"
    /\ cd_in.found # <<>>
    /\ cd_in.found[1] = NewEvidenceId
    /\ cd_out.adjudicated
    /\ Len(cd_out.alerts) = 1
    /\ cd_out.alerts[1].conflict_type = "semantic"

-----------------------------------------------------------------------------
(* Properties of the strength-refresh node *)

-----------------------------------------------------------------------------
(* Evidence Hunter graph: generate_queries -> search_vector -> filter_rank  *)
(* -> (loop?) -> summarize -> store_results                                 *)

MaxQueries == 2   \* longest list of queries the reasoning service answers
MaxIndices == 3   \* longest list of indices the reasoning service answers

\* the elements of a sequence
Range(seq) == {seq[i] : i \in 1..Len(seq)}

\* the answers to generate_queries: text that does not decode to a list, or
\* a list of strings ("q"), or a list of strings with one element that is
\* something else
QueryAnswers ==
    {[kind |-> "undecodable"]} \cup
    [kind : {"list"}, queries : SeqsUpTo({"q"}, MaxQueries)] \cup
    {[kind |-> "list", queries |-> Append(qs, "not_a_string")] :
        qs \in SeqsUpTo({"q"}, MaxQueries - 1)}

generate_queries(state, answer) ==
    LET iteration == Get(state, "iteration", 0)
        queries == IF answer.kind = "undecodable"
                   THEN <<state["hypothesis"]>>
                   ELSE answer.queries
    IN Upd(state, [queries |-> queries, iteration |-> iteration + 1])

\* the rows search_evidence returns for one query: any rows of the
\* workspace, each once (two queries can return them in different orders)
SearchRows ==
    {SelectSeq(<<"e1", "e2", "e3">>, LAMBDA e : e \in S) : S \in SUBSET Evidence}

\* the inner loop appending every returned row
AddUnseen_all(all_results, rows) == all_results \o rows

\* the inner loop of search_vector: append the rows whose id is not in
\* seen_ids
AddUnseen(all_results, rows) ==
    all_results \o SelectSeq(rows, LAMBDA id : id \notin Range(all_results))

RECURSIVE SearchAll(_, _)
\* the loop over the queries, found[i] being the rows returned for query i
SearchAll(all_results, found) ==
    IF found = <<>> THEN all_results
    ELSE SearchAll(AddUnseen(all_results, Head(found)), Tail(found))

search_vector(state, model_loaded, found) ==
    LET all_results == Get(state, "results", <<>>)
    IN Upd(state, [results |-> IF model_loaded
                               THEN SearchAll(all_results, found)
                               ELSE all_results])

\* the answers to filter_rank: text that does not decode to a list, or a
\* list of elements that are indices 0..n (n is past the end) or, for -1,
\* negative or no integers
IndexAnswers(n) ==
    {[kind |-> "undecodable"]} \cup
    [kind : {"list"}, indices : SeqsUpTo(-1..n, MaxIndices)]

filter_rank(state, answer) ==
    LET results == state["results"]
        indices == IF answer.kind = "undecodable" THEN <<>> ELSE answer.indices
        valid == SelectSeq(indices, LAMBDA idx : 0 <= idx /\ idx < Len(results))
    IN IF results = <<>>
       THEN Upd(state, [filtered |-> <<>>])
       ELSE Upd(state, [filtered |-> [k \in 1..Len(valid) |-> results[valid[k] + 1]]])

should_loop(state) ==
    LET filtered == Get(state, "filtered", <<>>)
        iteration == Get(state, "iteration", 0)
    IN IF Len(filtered) < 3 /\ iteration < 2
       THEN "generate_queries"
       ELSE "summarize"

summarize(state) ==
    Upd(state, [summary |-> IF Get(state, "filtered", <<>>) = <<>>
                            THEN "No relevant evidence found"
                            ELSE "summary"])

\* the state run_evidence_hunter starts the graph with
HunterInitialState(decision_id, confidence_before) ==
    [hypothesis |-> "h", workspace_id |-> "w1", decision_id |-> decision_id,
     queries |-> <<>>, results |-> <<>>, filtered |-> <<>>, summary |-> "",
     confidence_before |-> confidence_before, confidence_after |-> 0,
     iteration |-> 0]

EHGenerateQueries ==
    /\ eh_pc = "generate_queries"
    /\ \E answer \in QueryAnswers :
          eh_state' = generate_queries(eh_state, answer)
    /\ eh_pc' = "search_vector"
    /\ eh_visits' = eh_visits + 1
    /\ UNCHANGED <<eh_model, eh_search>>
    /\ UNCHANGED <<dec_vars, alerts>>
    /\ UNCHANGED not_eh

\* search_vector; the embedding model is handed a query that is not a
\* string as it is, and the library either embeds it or raises, which ends
\* the run: no node of this graph catches exceptions
EHSearchVector ==
    /\ eh_pc = "search_vector"
    /\ LET queries == eh_state["queries"]
       IN \E found \in [1..Len(queries) -> SearchRows],
             raises \in (IF eh_model /\ "not_a_string" \in Range(queries)
                         THEN BOOLEAN ELSE {FALSE}) :
            IF raises
            THEN /\ eh_pc' = "aborted"
                 /\ UNCHANGED <<eh_state, eh_search>>
            ELSE /\ eh_state' = search_vector(eh_state, eh_model, found)
                 /\ eh_search' = [before |-> Len(eh_state["results"]),
                                  seen_again |->
                                     /\ eh_model
                                     /\ \E q \in DOMAIN found :
                                           Range(found[q]) \cap Range(eh_state["results"]) # {}]
                 /\ eh_pc' = "filter_rank"
    /\ UNCHANGED <<eh_model, eh_visits>>
    /\ UNCHANGED <<dec_vars, alerts>>
    /\ UNCHANGED not_eh

\* filter_rank and the conditional edge after it; the reasoning service is
\* only asked when there are results
EHFilterRank ==
    /\ eh_pc = "filter_rank"
    /\ \E answer \in (IF eh_state["results"] = <<>>
                       THEN {[kind |-> "undecodable"]}
                       ELSE IndexAnswers(Len(eh_state["results"]))) :
          /\ eh_state' = filter_rank(eh_state, answer)
          /\ eh_pc' = should_loop(eh_state')
    /\ UNCHANGED <<eh_model, eh_visits, eh_search>>
    /\ UNCHANGED <<dec_vars, alerts>>
    /\ UNCHANGED not_eh

EHSummarize ==
    /\ eh_pc = "summarize"
    /\ eh_state' = summarize(eh_state)
    /\ eh_pc' = "store_results"
    /\ UNCHANGED <<eh_model, eh_visits, eh_search>>
    /\ UNCHANGED <<dec_vars, alerts>>
    /\ UNCHANGED not_eh

\* store_results: upsert a link per filtered item (a failed upsert is
\* passed over), recalculate the decision when one succeeded, read the
\* decision's strength, insert the alert
EHStoreResults ==
    /\ eh_pc = "store_results"
    /\ LET evidence_ids == Range(eh_state["filtered"])
           decision_id == eh_state["decision_id"]
       IN \E linked \in (IF decision_id # "None" THEN SUBSET evidence_ids ELSE {{}}) :
            \E new \in [linked \ DOMAIN dec_links -> FactorValues] :
              LET links == WithLinks(dec_links, new)
                  row == IF linked # {}
                         THEN recalculate_decision_strength(links, dec_strengths)
                         ELSE dec_row
              IN /\ dec_links' = links
                 /\ dec_row' = row
                 /\ dec_last' = IF linked # {}
                                THEN [path |-> "hunter",
                                      avg |-> RecalculateAvg(links, dec_strengths),
                                      op |-> "hunter",
                                      before |-> Cardinality(DOMAIN dec_links)]
                                ELSE dec_last
                 /\ eh_state' = Upd(eh_state,
                        [confidence_before |-> Get(eh_state, "confidence_before", 0),
                         confidence_after |-> IF decision_id # "None"
                                              THEN row.evidence_strength
                                              ELSE Get(eh_state, "confidence_before", 0)])
    /\ alerts' = Inserted(alerts, <<"evidence_hunter">>)
    /\ eh_pc' = "END"
    /\ UNCHANGED dec_strengths
    /\ UNCHANGED <<eh_model, eh_visits, eh_search>>
    /\ UNCHANGED not_eh

\* run_evidence_hunter on a hypothesis, without a decision or with one that
\* has no links yet
InitEH ==
    /\ eh_pc = "generate_queries"
    /\ eh_state \in {HunterInitialState(d, 0) : d \in {"None", "d1"}}
    /\ eh_model \in BOOLEAN
    /\ eh_visits = 0
    /\ eh_search = <<>>
    /\ dec_strengths = [e \in Evidence |-> IF e = "e1" THEN 80 ELSE 20]
    /\ dec_links = <<>>
    /\ dec_row = [evidence_count |-> 0, evidence_strength |-> 0, gate_recommendation |-> "None"]
    /\ dec_last = [path |-> "none"]
    /\ ConcIdle
    /\ SAIdle
    /\ ELIdle
    /\ CDIdle
    /\ DMIdle
    /\ SNIdle
    /\ alerts = <<>>

NextEH ==
    \/ EHGenerateQueries
    \/ EHSearchVector
    \/ EHFilterRank
    \/ EHSummarize
    \/ EHStoreResults

SpecEH == InitEH /\ [][NextEH]_vars

\* the graph runs a node whenever one is due
FairSpecEH == SpecEH /\ WF_vars(NextEH)

\* C32: in a run of the Evidence Hunter graph generate_queries is visited
\* at most twice, whatever the reasoning service answers, and the run goes
\* on to summarize and store_results: it never ends before them
C32_HunterLoopBounded ==
    /\ eh_visits <= 2
    /\ eh_pc # "aborted"

\* the accumulated results of the Evidence Hunter run
HunterResults(state) == Get(state, "results", <<>>)

\* C39: through all iterations of an Evidence Hunter run the accumulated
\* results list holds no evidence id twice, and every step keeps the entries
\* it found, in their places, adding new ones after them
C39_ResultsAccumulate ==
    [][/\ IsPrefix(HunterResults(eh_state), HunterResults(eh_state'))
       /\ \A i, j \in 1..Len(HunterResults(eh_state')) :
             i # j => HunterResults(eh_state')[i] # HunterResults(eh_state')[j]]_vars

\* the second search of a run was returned an item the first had found, and
\* added a new one to the list
C39_Witness ==
    /\ eh_pc = "filter_rank"
    /\ eh_state["iteration"] = 2
    /\ eh_search.before >= 1
    /\ eh_search.seen_again
    /\ Len(eh_state["results"]) > eh_search.before

====
